---- MODULE Spec2Model ----
(***************************************************************************)
(* GoX IDE: the project model (core.GoProject over filesystem.OSFileSystem) *)
(* and the command session (cli.CLI).                                       *)
(*                                                                          *)
(* Strings that are paths are modelled as the sequence of their segments:   *)
(* "/proj/vendor/pkg.go" is <<"proj", "vendor", "pkg.go">>, and the         *)
(* relative path "." is <<".">>.  A file name never holds a separator, so   *)
(* the representation is one to one.  FileInfo.Size, ModTime and Language   *)
(* are metadata no operation modelled here reads; they are left out.        *)
(***************************************************************************)
EXTENDS Integers, Sequences, FiniteSets, TLC

VARIABLES
    fs,           \* the directory tree on disk: [dirs, files, unreadable]
    filesRet,     \* what the last direct GoProject.Files() call returned
    treeRet,      \* what the last direct GoProject.FileTree() call returned
    isGoRet,      \* what the last direct GoProject.IsGoProject() call returned
    pc,           \* where CLI.Run stands
    cmd,          \* the trimmed line CLI.Run is dispatching, as its fields
    files,        \* CLI.files
    currentFile,  \* CLI.currentFile
    written,      \* what the last step of CLI.Run wrote to CLI.output
    listed,       \* history: some ls/list has stored a list in this session
    lastListing,  \* history: what Project.Files() returned to the last storing ls
    ctxCanceled,  \* the session's context is done
    proc,         \* the Builder subprocess the session waits for
    runErr,       \* what CLI.Run returned, once it has
    envSteps,     \* number of changes made on disk behind the session's back
    bcall,        \* the Builder call a caller other than the session has made
    walkRet,      \* what the last direct FileSystem.WalkDir call returned
    lastOpen,     \* history: the reference and path of the last open since the last listing
    lastLs,       \* history: the output of the last storing ls, and what came after it
    boot,         \* process start-up: the flags, the environment, and how far main has got
    lang,         \* a file name or tag handed to the language table, and the answer
    sinceCancel,  \* history: lines dispatched since the session's context was canceled
    input,        \* CLI.input: a terminal, or a script with `left` lines before its end
    editor,       \* the GUI's TextEditorImpl, the files it reads and writes, and its history
    explorer      \* the GUI's FileExplorerImpl, and the click Update last processed

vars == <<fs, filesRet, treeRet, isGoRet, pc, cmd, files, currentFile,
          written, listed, lastListing, ctxCanceled, proc, runErr, envSteps,
          bcall, walkRet, lastOpen, lastLs, boot, lang, sinceCancel, input,
          editor, explorer>>

projectVars == <<filesRet, treeRet, isGoRet, walkRet>>
\* what the steps of a session but the read leave alone: start-up, the
\* language table, the count of lines dispatched since the cancellation, and
\* the input
auxVars == <<boot, lang, sinceCancel, input, editor, explorer>>
\* the state of a session by itself
cliVars == <<pc, cmd, files, currentFile, written, listed, lastListing,
             ctxCanceled, proc, runErr, envSteps, bcall, lastOpen, lastLs,
             sinceCancel, input, editor, explorer>>
sessionVars == <<pc, cmd, files, currentFile, written, listed, lastListing,
                 ctxCanceled, proc, runErr, envSteps, bcall, lastOpen, lastLs, auxVars>>

(***************************************************************************)
(* Bounds of the model.                                                     *)
(***************************************************************************)
MaxEntries == 3      \* entries created below the project root
MaxEnvSteps == 2     \* changes on disk during one session
MaxPieces == 3       \* pieces a file name handed to the language table is put together from
MaxInput == 3        \* lines of a script given to the session as its input

(***************************************************************************)
(* File names, in the byte order os.ReadDir and filepath.WalkDir sort by.   *)
(***************************************************************************)
NameOrder ==
    << ".git", "0", "3", "app", "config", "dist", "go.mod", "main.go",
       "node_modules", "pkg.go", "proj", "proj.exe", "vendor" >>

Names == {NameOrder[i] : i \in 1..Len(NameOrder)}

\* the names the enumerated project trees are built from
ProjNames == {".git", "go.mod", "main.go", "node_modules", "vendor"}

\* strings.HasPrefix(name, "."), over Names and the root marker "."
HasDotPrefix(name) == name \in {".", ".git"}

NameRank(name) == CHOOSE i \in 1..Len(NameOrder) : NameOrder[i] = name

\* the project root, an absolute path
RootPath == <<"proj">>

Last(s) == s[Len(s)]
Front(s) == SubSeq(s, 1, Len(s) - 1)

\* filepath.Base
Base(path) == Last(path)

\* filepath.Join(dir, name)
Join(dir, name) == Append(dir, name)

\* filepath.Rel(base, path) for a path at or below base
Rel(base, path) ==
    IF path = base THEN <<".">> ELSE SubSeq(path, Len(base) + 1, Len(path))

IsPrefix(p, q) == Len(p) <= Len(q) /\ SubSeq(q, 1, Len(p)) = p

(***************************************************************************)
(* The disk.                                                                *)
(***************************************************************************)
FSExists(fsys, path) == path \in fsys.dirs \cup fsys.files

\* OSFileSystem.Exists
Exists(fsys, path) == FSExists(fsys, path)

\* os.ReadDir: the entries of a directory sorted by file name
ReadDir(fsys, dir) ==
    IF dir \notin fsys.dirs THEN [err |-> "ENOENT", entries |-> <<>>]
    ELSE IF dir \in fsys.unreadable THEN [err |-> "EACCES", entries |-> <<>>]
    ELSE [err |-> "nil",
          entries |-> SelectSeq([i \in 1..Len(NameOrder) |-> Join(dir, NameOrder[i])],
                                LAMBDA q : FSExists(fsys, q))]

\* the core.FileInfo OSFileSystem.WalkDir builds for the entry at path
WalkInfo(fsys, root, path) ==
    [Name |-> Base(path), Path |-> path, RelPath |-> Rel(root, path),
     IsDir |-> path \in fsys.dirs]

\* the core.FileInfo OSFileSystem.ListFiles builds for an entry of dir
ListInfo(fsys, dir, path) ==
    [Name |-> Base(path), Path |-> path, RelPath |-> Rel(dir, path),
     IsDir |-> path \in fsys.dirs]

\* OSFileSystem.ListFiles
ListFiles(fsys, dir) ==
    LET rd == ReadDir(fsys, dir)
    IN  [err |-> rd.err,
         files |-> [i \in 1..Len(rd.entries) |-> ListInfo(fsys, dir, rd.entries[i])]]

(***************************************************************************)
(* GoProject.Files over OSFileSystem.WalkDir.                               *)
(***************************************************************************)
\* the callback GoProject.Files hands to WalkDir: the error it returns and
\* whether it appends the entry to the result
FilesFn(info) ==
    IF HasDotPrefix(info.Name) /\ info.Name # "."
    THEN [err |-> "nil", keep |-> FALSE]
    ELSE IF info.IsDir /\ (info.Name = "vendor" \/ info.Name = "node_modules")
    THEN [err |-> "nil", keep |-> FALSE]
    ELSE [err |-> "nil", keep |-> info.RelPath # <<".">> /\ ~info.IsDir]

\* a callback handed to WalkDir: the one of GoProject.Files, or a stub that
\* accepts every entry and returns err for the entry at path `at`
FilesCallback == [kind |-> "files", at |-> <<>>, err |-> "nil"]
StubCallback(at, err) == [kind |-> "stub", at |-> at, err |-> err]

\* the callback applied to an entry: the error it returns, and whether the
\* entry goes into the record of the walk (for Files, the result; for the
\* stub, every entry it was called for)
Callback(fn, info) ==
    IF fn.kind = "files" THEN FilesFn(info)
    ELSE [err |-> IF info.Path = fn.at THEN fn.err ELSE "nil", keep |-> TRUE]

\* the closure OSFileSystem.WalkDir hands to filepath.WalkDir, called with the
\* error filepath.WalkDir met at the entry ("nil" when none): it returns that
\* error without calling fn, else what fn returns
WalkDirFunc(fsys, root, path, err, fn) ==
    IF err # "nil" THEN [err |-> err, keep |-> FALSE]
    ELSE Callback(fn, WalkInfo(fsys, root, path))

\* filepath.WalkDir's walkDir: pre-order, each directory in ReadDir order.
\* A callback's SkipDir prunes the directory it is returned for (or, returned
\* for a file, the rest of the file's directory); any other error ends the walk.
RECURSIVE walkDir(_, _, _, _), walkEntries(_, _, _, _, _),
          walkEntriesContinuing(_, _, _, _, _)
walkDir(fsys, root, path, fn) ==
    LET first == WalkDirFunc(fsys, root, path, "nil", fn)
        out0  == IF first.keep THEN <<WalkInfo(fsys, root, path)>> ELSE <<>>
        isDir == path \in fsys.dirs
        rd    == ReadDir(fsys, path)
    IN  IF first.err # "nil" \/ ~isDir
        THEN [err |-> IF first.err = "SkipDir" /\ isDir THEN "nil" ELSE first.err,
              out |-> out0]
        ELSE IF rd.err # "nil"
        THEN LET second == WalkDirFunc(fsys, root, path, rd.err, fn)
             IN  [err |-> IF second.err = "SkipDir" THEN "nil" ELSE second.err,
                  out |-> out0]
        ELSE LET rest == walkEntries(fsys, root, rd.entries, 1, fn)
             IN  [err |-> rest.err, out |-> out0 \o rest.out]

\* a loop that goes on to the next entry after an error and hands up the
\* first error at the end
walkEntriesContinuing(fsys, root, entries, i, fn) ==
    IF i > Len(entries) THEN [err |-> "nil", out |-> <<>>]
    ELSE LET r == walkDir(fsys, root, entries[i], fn)
             rest == walkEntriesContinuing(fsys, root, entries, i + 1, fn)
         IN  IF r.err = "SkipDir" THEN [err |-> "nil", out |-> r.out]
             ELSE [err |-> IF r.err # "nil" THEN r.err ELSE rest.err,
                   out |-> r.out \o rest.out]

walkEntries(fsys, root, entries, i, fn) ==
    IF i > Len(entries) THEN [err |-> "nil", out |-> <<>>]
    ELSE LET r == walkDir(fsys, root, entries[i], fn)
         IN  IF r.err = "SkipDir" THEN [err |-> "nil", out |-> r.out]
             ELSE IF r.err # "nil" THEN r
             ELSE LET rest == walkEntries(fsys, root, entries, i + 1, fn)
                  IN  [err |-> rest.err, out |-> r.out \o rest.out]

\* the errors filepath.WalkDir takes for itself instead of returning them
IsSkip(err) == err \in {"SkipDir", "SkipAll"}

\* OSFileSystem.WalkDir with callback fn: the error returned, and the record
\* of the walk
WalkDir(fsys, root, fn) ==
    IF ~FSExists(fsys, root)
    THEN LET r == WalkDirFunc(fsys, root, root, "ENOENT", fn)
         IN  [err |-> IF IsSkip(r.err) THEN "nil" ELSE r.err, out |-> <<>>]
    ELSE LET r == walkDir(fsys, root, root, fn)
         IN  [err |-> IF IsSkip(r.err) THEN "nil" ELSE r.err, out |-> r.out]

\* an answer worked out once, when go.mod was there, and kept
IsGoProjectMemoized(fsys) == TRUE

\* GoProject.IsGoProject
IsGoProject(fsys) == Exists(fsys, Join(RootPath, "go.mod"))

\* GoProject.Files: the files collected, and the error of the walk
Files(fsys) ==
    LET w == WalkDir(fsys, RootPath, FilesCallback)
    IN  [files |-> w.out, err |-> w.err]

(***************************************************************************)
(* GoProject.FileTree.                                                      *)
(***************************************************************************)
\* a filter that lets every entry through
VisibleAll(entry) == TRUE

\* the filter of GoProject.buildTree
Visible(entry) ==
    /\ ~HasDotPrefix(entry.Name)
    /\ entry.Name # "vendor"
    /\ entry.Name # "node_modules"

\* TreeNode.IsLast as buildTree sets it for the i-th of the nVisible entries
\* the filter kept out of the nEntries listed
IsLastBeforeFilter(i, nVisible, nEntries) == i = nEntries

IsLastOf(i, nVisible, nEntries) == i = nVisible

\* GoProject.buildTree: the children appended to the node, and the error.
\* A child whose own listing fails is not appended, and the loop ends there.
RECURSIVE buildTree(_, _, _), buildChildren(_, _, _, _, _)
\* a tree that shows the entries of a directory last to first
buildTreeReversing(fsys, path, level) ==
    LET ls == ListFiles(fsys, path)
        vis == SelectSeq(ls.files, Visible)
    IN  IF ls.err # "nil" THEN [err |-> ls.err, children |-> <<>>]
        ELSE buildChildren(fsys, [i \in 1..Len(vis) |-> vis[Len(vis) + 1 - i]],
                           Len(ls.files), 1, level)

buildTree(fsys, path, level) ==
    LET ls == ListFiles(fsys, path)
    IN  IF ls.err # "nil" THEN [err |-> ls.err, children |-> <<>>]
        ELSE buildChildren(fsys, SelectSeq(ls.files, Visible), Len(ls.files), 1, level)

buildChildren(fsys, visibleEntries, nEntries, i, level) ==
    IF i > Len(visibleEntries) THEN [err |-> "nil", children |-> <<>>]
    ELSE LET entry == visibleEntries[i]
             sub   == IF entry.IsDir THEN buildTree(fsys, entry.Path, level + 1)
                      ELSE [err |-> "nil", children |-> <<>>]
             child == [File |-> entry, Level |-> level + 1,
                       IsLast |-> IsLastOf(i, Len(visibleEntries), nEntries),
                       Children |-> sub.children]
         IN  IF sub.err # "nil" THEN [err |-> sub.err, children |-> <<>>]
             ELSE LET rest == buildChildren(fsys, visibleEntries, nEntries, i + 1, level)
                  IN  [err |-> rest.err, children |-> <<child>> \o rest.children]

\* GoProject.FileTree
FileTree(fsys) ==
    LET b == buildTree(fsys, RootPath, 0)
    IN  [tree |-> [File |-> [Name |-> Base(RootPath), Path |-> RootPath,
                             RelPath |-> <<".">>, IsDir |-> TRUE],
                   Level |-> 0, IsLast |-> FALSE, Children |-> b.children],
         err |-> b.err]

(***************************************************************************)
(* The project trees the queries are checked on.                            *)
(***************************************************************************)
\* spec 8: go.mod, main.go, .git/ with contents, vendor/pkg.go
ScenarioFS ==
    [dirs  |-> {RootPath, Join(RootPath, ".git"), Join(RootPath, "vendor")},
     files |-> {Join(RootPath, "go.mod"), Join(RootPath, "main.go"),
                Join(Join(RootPath, ".git"), "config"),
                Join(Join(RootPath, "vendor"), "pkg.go")},
     unreadable |-> {}]

\* a project directory with nothing in it, and no project directory at all
EmptyFS == [dirs |-> {RootPath}, files |-> {}, unreadable |-> {}]
MissingFS == [dirs |-> {}, files |-> {}, unreadable |-> {}]

\* the entries below the root
EntriesOf(fsys) == (fsys.dirs \cup fsys.files) \ {RootPath}

\* os.Mkdir / os.WriteFile of a new entry of an existing directory
AddEntry(fsys, dir, name, isDir) ==
    IF isDir THEN [fsys EXCEPT !.dirs = @ \cup {Join(dir, name)}]
    ELSE [fsys EXCEPT !.files = @ \cup {Join(dir, name)}]

\* os.RemoveAll: the entry and everything below it
RemoveAll(fsys, path) ==
    [dirs |-> {d \in fsys.dirs : ~IsPrefix(path, d)},
     files |-> {f \in fsys.files : ~IsPrefix(path, f)},
     unreadable |-> {d \in fsys.unreadable : ~IsPrefix(path, d)}]

(***************************************************************************)
(* Errors and output of the command session.                                *)
(* An error is the format string of its message and the values formatted    *)
(* into it; a line of a command is the sequence of its fields, each field   *)
(* the sequence of its "/"-separated segments.                              *)
(***************************************************************************)
NilErr == [msg |-> "nil", args |-> <<>>]

\* the *fs.PathError of a failed os.ReadFile
OsErr(code, path) == [msg |-> code, args |-> <<path>>]

\* the error a failed directory walk or listing hands up
WalkErr(code) == [msg |-> code, args |-> <<>>]

\* a field without a separator
Word(str) == <<str>>

\* strconv.Atoi over the fields the session is given: the decimal literals,
\* with an optional sign, parse; everything else is a syntax error
IntLiteral ==
    ("0" :> 0) @@ ("1" :> 1) @@ ("3" :> 3) @@ ("5" :> 5) @@ ("+1" :> 1) @@ ("-1" :> -1)

Atoi(field) ==
    IF Len(field) = 1 /\ field[1] \in DOMAIN IntLiteral
    THEN [ok |-> TRUE, num |-> IntLiteral[field[1]]]
    ELSE [ok |-> FALSE, num |-> 0]

InvalidNumberErr(num) ==
    [msg |-> "invalid file number %d. Use 'ls' to see available files", args |-> <<num>>]
NotFoundErr(filename) == [msg |-> "file not found: %s", args |-> <<filename>>]
UsageOpenErr == [msg |-> "usage: open <filename>", args |-> <<>>]
UsageCatErr == [msg |-> "usage: cat <filename>", args |-> <<>>]
UnknownCommandErr(name) ==
    [msg |-> "unknown command: %s (type 'help' for commands)", args |-> <<name>>]
NotGoProjectErr == [msg |-> "not a Go project", args |-> <<>>]
ContextCanceledErr == [msg |-> "context canceled", args |-> <<>>]

Prompt == [kind |-> "gox> "]
ErrorLine(err) == [kind |-> "error", err |-> err]

\* the FileInfo{} viewFile renders when no stored entry has the resolved path
ZeroFileInfo == [Name |-> "", Path |-> <<>>, RelPath |-> <<>>, IsDir |-> FALSE]

(***************************************************************************)
(* The handlers of CLI.executeCommand.                                      *)
(***************************************************************************)
\* a comparison that forgets the bare name
MatchesRelPathOnly(f, filename) == f.RelPath = filename

\* the name comparison of resolveFile
Matches(f, filename) == f.RelPath = filename \/ Word(f.Name) = filename

\* the loop of resolveFile from the i-th stored entry on: first match wins
RECURSIVE matchFrom(_, _, _)
matchFrom(fileList, filename, i) ==
    IF i > Len(fileList) THEN [path |-> <<>>, err |-> NotFoundErr(filename)]
    ELSE IF Matches(fileList[i], filename) THEN [path |-> fileList[i].Path, err |-> NilErr]
    ELSE matchFrom(fileList, filename, i + 1)

\* a resolveFile that tries the names first and the index only when none matches
resolveFileNameFirst(fileList, filename) ==
    LET n == Atoi(filename)
        m == matchFrom(fileList, filename, 1)
    IN  IF m.err = NilErr THEN m
        ELSE IF ~n.ok THEN m
        ELSE IF n.num < 1 \/ n.num > Len(fileList)
        THEN [path |-> <<>>, err |-> InvalidNumberErr(n.num)]
        ELSE [path |-> fileList[n.num].Path, err |-> NilErr]

\* a resolveFile that takes an index above the list for a file name
resolveFileNoUpperBound(fileList, filename) ==
    LET n == Atoi(filename)
    IN  IF n.ok /\ n.num < 1 THEN [path |-> <<>>, err |-> InvalidNumberErr(n.num)]
        ELSE IF n.ok /\ n.num <= Len(fileList)
        THEN [path |-> fileList[n.num].Path, err |-> NilErr]
        ELSE matchFrom(fileList, filename, 1)

\* a resolveFile that takes an integer outside the list for a file name
resolveFileFallingBack(fileList, filename) ==
    LET n == Atoi(filename)
    IN  IF n.ok /\ n.num >= 1 /\ n.num <= Len(fileList)
        THEN [path |-> fileList[n.num].Path, err |-> NilErr]
        ELSE matchFrom(fileList, filename, 1)

\* CLI.resolveFile
resolveFile(fileList, filename) ==
    LET n == Atoi(filename)
    IN  IF n.ok
        THEN IF n.num < 1 \/ n.num > Len(fileList)
             THEN [path |-> <<>>, err |-> InvalidNumberErr(n.num)]
             ELSE [path |-> fileList[n.num].Path, err |-> NilErr]
        ELSE matchFrom(fileList, filename, 1)

\* a listFiles that appends the new listing to the stored one
listFilesMerging(fileList, fsys) ==
    LET r == Files(fsys)
    IN  IF r.err # "nil"
        THEN [files |-> fileList, stored |-> FALSE, out |-> <<>>, err |-> WalkErr(r.err)]
        ELSE [files |-> fileList \o r.files, stored |-> TRUE,
              out |-> << [kind |-> "listing",
                          rows |-> [i \in 1..Len(r.files) |-> <<i, r.files[i].RelPath>>],
                          total |-> Len(r.files)] >>,
              err |-> NilErr]

\* a listFiles that numbers its rows on from the list stored before
listFilesContinuing(fileList, fsys) ==
    LET r == Files(fsys)
    IN  IF r.err # "nil"
        THEN [files |-> fileList, stored |-> FALSE, out |-> <<>>, err |-> WalkErr(r.err)]
        ELSE [files |-> r.files, stored |-> TRUE,
              out |-> << [kind |-> "listing",
                          rows |-> [i \in 1..Len(r.files) |->
                                       <<Len(fileList) + i, r.files[i].RelPath>>],
                          total |-> Len(r.files)] >>,
              err |-> NilErr]

\* CLI.listFiles: the list stored, whether one is stored, the output, the error
\* a listFiles that empties the stored list when the listing fails
listFilesForgettingOnError(fileList, fsys) ==
    LET r == Files(fsys)
    IN  IF r.err # "nil"
        THEN [files |-> <<>>, stored |-> FALSE, out |-> <<>>,
              err |-> WalkErr(r.err)]
        ELSE [files |-> r.files, stored |-> TRUE,
              out |-> << [kind |-> "listing",
                          rows |-> [i \in 1..Len(r.files) |-> <<i, r.files[i].RelPath>>],
                          total |-> Len(r.files)] >>,
              err |-> NilErr]

listFiles(fileList, fsys) ==
    LET r == Files(fsys)
    IN  IF r.err # "nil"
        THEN [files |-> fileList, stored |-> FALSE, out |-> <<>>,
              err |-> WalkErr(r.err)]
        ELSE [files |-> r.files, stored |-> TRUE,
              out |-> << [kind |-> "listing",
                          rows |-> [i \in 1..Len(r.files) |-> <<i, r.files[i].RelPath>>],
                          total |-> Len(r.files)] >>,
              err |-> NilErr]

\* CLI.showTree
showTree(fsys) ==
    LET r == FileTree(fsys)
    IN  IF r.err # "nil" THEN [out |-> <<>>, err |-> WalkErr(r.err)]
        ELSE [out |-> << [kind |-> "tree", tree |-> r.tree] >>, err |-> NilErr]

\* an openFile that forgets the current file when the reference does not resolve
openFileClearing(fileList, current, filename) ==
    LET r == resolveFile(fileList, filename)
    IN  IF r.err # NilErr THEN [currentFile |-> <<>>, out |-> <<>>, err |-> r.err]
        ELSE [currentFile |-> r.path,
              out |-> << [kind |-> "opened", name |-> filename] >>, err |-> NilErr]

\* CLI.openFile
openFile(fileList, current, filename) ==
    LET r == resolveFile(fileList, filename)
    IN  IF r.err # NilErr THEN [currentFile |-> current, out |-> <<>>, err |-> r.err]
        ELSE [currentFile |-> r.path,
              out |-> << [kind |-> "opened", name |-> filename] >>, err |-> NilErr]

\* the stored entry viewFile hands to the renderer
RECURSIVE infoFrom(_, _, _)
infoFrom(fileList, path, i) ==
    IF i > Len(fileList) THEN ZeroFileInfo
    ELSE IF fileList[i].Path = path THEN fileList[i]
    ELSE infoFrom(fileList, path, i + 1)

\* os.ReadFile
ReadFile(fsys, path) ==
    IF path \in fsys.files THEN "nil"
    ELSE IF path \in fsys.dirs THEN "EISDIR" ELSE "ENOENT"

\* CLI.viewFile
viewFile(fileList, fsys, filename) ==
    LET r == resolveFile(fileList, filename)
    IN  IF r.err # NilErr THEN [out |-> <<>>, err |-> r.err]
        ELSE IF ReadFile(fsys, r.path) # "nil"
        THEN [out |-> <<>>, err |-> OsErr(ReadFile(fsys, r.path), r.path)]
        ELSE [out |-> << [kind |-> "file", info |-> infoFrom(fileList, r.path, 1),
                          path |-> r.path] >>,
              err |-> NilErr]

(***************************************************************************)
(* GoBuilder: Build, Run, Test and Clean over os/exec.                      *)
(* A subprocess is the command it was started from, its exit status         *)
(* ("running" until it has one) and whether the goroutine that watches the  *)
(* context has interrupted it.                                              *)
(***************************************************************************)
BuilderOps == {"build", "run", "test", "clean"}

\* the fixed toolchain command of each operation
Argv(op) ==
    CASE op = "build" -> <<"go", "build", ".">>
      [] op = "run"   -> <<"go", "run", ".">>
      [] op = "test"  -> <<"go", "test", "./...">>
      [] op = "clean" -> <<"go", "clean">>

SpawnErr == [msg |-> "exec: go: executable file not found", args |-> <<>>]
ExitStatusErr == [msg |-> "exit status 1", args |-> <<>>]
KilledErr == [msg |-> "signal: killed", args |-> <<>>]

\* the exec.Cmd each operation builds: exec.CommandContext and the fields the
\* operation assigns ("nil" is a field left unset, which os/exec connects to
\* the null device)
Command(op) ==
    [argv   |-> Argv(op),
     dir    |-> RootPath,
     stdout |-> IF op = "clean" THEN "nil" ELSE "os.Stdout",
     stderr |-> IF op = "clean" THEN "nil" ELSE "os.Stderr",
     stdin  |-> IF op = "run" THEN "os.Stdin" ELSE "nil"]

NoProc == [op |-> "none", cmd |-> <<>>, status |-> "none", interrupted |-> FALSE]

\* the subprocess cmd.Start() has forked
Spawn(op) == [op |-> op, cmd |-> Command(op), status |-> "running", interrupted |-> FALSE]

\* a Start that forks whatever the state of the context
StartIgnoringCtx(lookPathOK, canceled) == IF ~lookPathOK THEN SpawnErr ELSE NilErr

\* cmd.Start(): the error of exec.LookPath, kept by exec.CommandContext, comes
\* first; then the error of a context that is already done; then the fork
Start(lookPathOK, canceled) ==
    IF ~lookPathOK THEN SpawnErr
    ELSE IF canceled THEN ContextCanceledErr
    ELSE NilErr

\* a Wait that reports every exit as a success
WaitErrSwallowing(status, interrupted) ==
    IF interrupted THEN ContextCanceledErr ELSE NilErr

\* cmd.Wait(): an *exec.ExitError for a state that is no success (a non-zero
\* exit, a death by signal); for a success, the context's error when the watcher
\* interrupted the subprocess before its exit was collected
WaitErr(status, interrupted) ==
    IF status = "exit1" THEN ExitStatusErr
    ELSE IF status = "killed" THEN KilledErr
    ELSE IF interrupted THEN ContextCanceledErr
    ELSE NilErr

\* project.Name() and project.Name()+".exe"
ProjectName == Base(RootPath)
ExeName == "proj.exe"

\* the build artifacts Clean removes, in the order it tries them
Artifacts ==
    << Join(RootPath, ProjectName), Join(RootPath, ExeName), Join(RootPath, "dist") >>

\* a loop that gives up at the first removal that fails
RECURSIVE removeArtifactsAborting(_, _, _)
removeArtifactsAborting(fsys, fails, i) ==
    IF i > Len(Artifacts) THEN [fs |-> fsys, removals |-> <<>>]
    ELSE LET artifact == Artifacts[i]
             present  == FSExists(fsys, artifact)
             failed   == present /\ artifact \in fails
             this     == [path |-> artifact, present |-> present, failed |-> failed]
         IN  IF failed THEN [fs |-> fsys, removals |-> <<this>>]
             ELSE LET rest == removeArtifactsAborting(
                                 IF present THEN RemoveAll(fsys, artifact) ELSE fsys,
                                 fails, i + 1)
                  IN  [fs |-> rest.fs, removals |-> <<this>> \o rest.removals]

\* the loop of Clean from the i-th artifact on: os.Stat, then os.RemoveAll of
\* what is there; a removal that fails (fails: the artifacts the system refuses
\* to remove) is logged and the loop goes on.  The disk afterwards, and what
\* was done to each artifact.
RECURSIVE removeArtifacts(_, _, _)
removeArtifacts(fsys, fails, i) ==
    IF i > Len(Artifacts) THEN [fs |-> fsys, removals |-> <<>>]
    ELSE LET artifact == Artifacts[i]
             present  == FSExists(fsys, artifact)
             failed   == present /\ artifact \in fails
             rest     == removeArtifacts(
                             IF present /\ ~failed THEN RemoveAll(fsys, artifact) ELSE fsys,
                             fails, i + 1)
         IN  [fs |-> rest.fs,
              removals |-> << [path |-> artifact, present |-> present, failed |-> failed] >>
                           \o rest.removals]

\* an operation that skips the project check
BuilderOpUnchecked(op, fsys, canceled, lookPathOK, fails) ==
    LET rm == IF op = "clean" THEN removeArtifacts(fsys, fails, 1)
              ELSE [fs |-> fsys, removals |-> <<>>]
        st == Start(lookPathOK, canceled)
    IN  [accepted |-> TRUE, err |-> st, fs |-> rm.fs, removals |-> rm.removals,
         spawns |-> << Command(op) >>,
         proc |-> IF st = NilErr THEN Spawn(op) ELSE NoProc]

\* an operation that starts its command a second time when the first Start fails
BuilderOpRetrying(op, fsys, canceled, lookPathOK, fails) ==
    IF ~IsGoProject(fsys)
    THEN [accepted |-> FALSE, err |-> NotGoProjectErr, fs |-> fsys, removals |-> <<>>,
          spawns |-> <<>>, proc |-> NoProc]
    ELSE LET rm == IF op = "clean" THEN removeArtifacts(fsys, fails, 1)
                   ELSE [fs |-> fsys, removals |-> <<>>]
             st == Start(lookPathOK, canceled)
         IN  [accepted |-> TRUE, err |-> st, fs |-> rm.fs, removals |-> rm.removals,
              spawns |-> IF st = NilErr THEN << Command(op) >>
                         ELSE << Command(op), Command(op) >>,
              proc |-> IF st = NilErr THEN Spawn(op) ELSE NoProc]

\* an operation that looks at the context before anything else
BuilderOpCtxFirst(op, fsys, canceled, lookPathOK, fails) ==
    IF canceled
    THEN [accepted |-> IsGoProject(fsys), err |-> ContextCanceledErr, fs |-> fsys,
          removals |-> <<>>, spawns |-> <<>>, proc |-> NoProc]
    ELSE IF ~IsGoProject(fsys)
    THEN [accepted |-> FALSE, err |-> NotGoProjectErr, fs |-> fsys, removals |-> <<>>,
          spawns |-> <<>>, proc |-> NoProc]
    ELSE LET rm == IF op = "clean" THEN removeArtifacts(fsys, fails, 1)
                   ELSE [fs |-> fsys, removals |-> <<>>]
             st == Start(lookPathOK, canceled)
         IN  [accepted |-> TRUE, err |-> st, fs |-> rm.fs, removals |-> rm.removals,
              spawns |-> << Command(op) >>,
              proc |-> IF st = NilErr THEN Spawn(op) ELSE NoProc]

\* a Clean that leaves the artifacts alone when the context is done
BuilderOpCtxBeforeRemoval(op, fsys, canceled, lookPathOK, fails) ==
    IF ~IsGoProject(fsys)
    THEN [accepted |-> FALSE, err |-> NotGoProjectErr, fs |-> fsys, removals |-> <<>>,
          spawns |-> <<>>, proc |-> NoProc]
    ELSE LET rm == IF op = "clean" /\ ~canceled THEN removeArtifacts(fsys, fails, 1)
                   ELSE [fs |-> fsys, removals |-> <<>>]
             st == Start(lookPathOK, canceled)
         IN  [accepted |-> TRUE, err |-> st, fs |-> rm.fs, removals |-> rm.removals,
              spawns |-> << Command(op) >>,
              proc |-> IF st = NilErr THEN Spawn(op) ELSE NoProc]

\* GoBuilder.Build/Run/Test/Clean up to the point where cmd.Run() blocks in
\* Wait: the project check, for Clean the artifact loop, then the one cmd.Run(),
\* whose Start may fail.  accepted: the check passed; err: the error returned
\* when no subprocess was started; spawns: the commands cmd.Run() was called on.
BuilderOp(op, fsys, canceled, lookPathOK, fails) ==
    IF ~IsGoProject(fsys)
    THEN [accepted |-> FALSE, err |-> NotGoProjectErr, fs |-> fsys, removals |-> <<>>,
          spawns |-> <<>>, proc |-> NoProc]
    ELSE LET rm == IF op = "clean" THEN removeArtifacts(fsys, fails, 1)
                   ELSE [fs |-> fsys, removals |-> <<>>]
             st == Start(lookPathOK, canceled)
         IN  [accepted |-> TRUE, err |-> st, fs |-> rm.fs, removals |-> rm.removals,
              spawns |-> << Command(op) >>,
              proc |-> IF st = NilErr THEN Spawn(op) ELSE NoProc]

\* no Builder call has been made
NoBuilderCall ==
    [op |-> "none", phase |-> "idle", accepted |-> FALSE, err |-> NilErr,
     removals |-> <<>>, spawns |-> <<>>, started |-> FALSE,
     canceled |-> FALSE, lookPathOK |-> TRUE, fails |-> {}, prior |-> "none"]

(***************************************************************************)
(* The language table (core.GetLanguageForFile, core.GetIconForLanguage).   *)
(* A file name is modelled here as the sequence of its characters, and a    *)
(* glyph as the code points of the string the source returns.               *)
(***************************************************************************)
\* the letters strings.ToLower changes, each with what it becomes
Folds ==
    { <<"A", "a">>, <<"B", "b">>, <<"C", "c">>, <<"D", "d">>, <<"E", "e">>,
      <<"F", "f">>, <<"G", "g">>, <<"H", "h">>, <<"I", "i">>, <<"J", "j">>,
      <<"K", "k">>, <<"L", "l">>, <<"M", "m">>, <<"N", "n">>, <<"O", "o">>,
      <<"P", "p">>, <<"Q", "q">>, <<"R", "r">>, <<"S", "s">>, <<"T", "t">>,
      <<"U", "u">>, <<"V", "v">>, <<"W", "w">>, <<"X", "x">>, <<"Y", "y">>,
      <<"Z", "z">> }

ToLowerRune(c) ==
    IF \E p \in Folds : p[1] = c THEN (CHOOSE p \in Folds : p[1] = c)[2] ELSE c

\* a comparison that minds letter case
ToLowerKeeping(s) == s

\* strings.ToLower
ToLower(s) == [i \in 1..Len(s) |-> ToLowerRune(s[i])]

\* filepath.Ext: the suffix from the last dot of the last path element on,
\* empty when that element has no dot
Ext(path) ==
    LET starts == {i \in 1..Len(path) :
                     /\ path[i] = "."
                     /\ \A j \in (i + 1)..Len(path) : path[j] \notin {".", "/"}}
    IN  IF starts = {} THEN <<>>
        ELSE SubSeq(path, CHOOSE i \in starts : TRUE, Len(path))

\* the cases of the switch in GetLanguageForFile
LanguageTable ==
    { [ext |-> <<".", "g", "o">>, tag |-> "go"],
      [ext |-> <<".", "m", "o", "d">>, tag |-> "gomod"],
      [ext |-> <<".", "s", "u", "m">>, tag |-> "gomod"],
      [ext |-> <<".", "m", "d">>, tag |-> "markdown"],
      [ext |-> <<".", "j", "s", "o", "n">>, tag |-> "json"],
      [ext |-> <<".", "y", "a", "m", "l">>, tag |-> "yaml"],
      [ext |-> <<".", "y", "m", "l">>, tag |-> "yaml"],
      [ext |-> <<".", "t", "o", "m", "l">>, tag |-> "toml"],
      [ext |-> <<".", "s", "h">>, tag |-> "shell"],
      [ext |-> <<".", "p", "y">>, tag |-> "python"],
      [ext |-> <<".", "j", "s">>, tag |-> "javascript"],
      [ext |-> <<".", "t", "s">>, tag |-> "typescript"],
      [ext |-> <<".", "h", "t", "m", "l">>, tag |-> "html"],
      [ext |-> <<".", "c", "s", "s">>, tag |-> "css"] }

GetLanguageForFile(filename) ==
    LET ext == ToLower(Ext(filename))
    IN  IF \E row \in LanguageTable : row.ext = ext
        THEN (CHOOSE row \in LanguageTable : row.ext = ext).tag
        ELSE "text"

\* the cases of the switch in GetIconForLanguage
IconTable ==
    { [language |-> "go", icon |-> "U+1F439"],
      [language |-> "gomod", icon |-> "U+1F4E6"],
      [language |-> "markdown", icon |-> "U+1F4CB"],
      [language |-> "json", icon |-> "U+1F527"],
      [language |-> "yaml", icon |-> "U+2699 U+FE0F"],
      [language |-> "toml", icon |-> "U+2699 U+FE0F"],
      [language |-> "shell", icon |-> "U+1F5A5 U+FE0F"],
      [language |-> "python", icon |-> "U+1F40D"],
      [language |-> "javascript", icon |-> "U+1F4DC"],
      [language |-> "typescript", icon |-> "U+1F4D8"],
      [language |-> "html", icon |-> "U+1F310"],
      [language |-> "css", icon |-> "U+1F3A8"] }

GenericIcon == "U+1F4C4"

GetIconForLanguage(language) ==
    IF \E row \in IconTable : row.language = language
    THEN (CHOOSE row \in IconTable : row.language = language).icon
    ELSE GenericIcon

\* the language table has not been asked.  name: the file name put together
\* so far, of `typed` pieces; tag: what GetLanguageForFile answered for it;
\* language, icon: what GetIconForLanguage was handed and answered
NoLang == [name |-> <<>>, typed |-> 0, asked |-> FALSE, tag |-> "none",
           language |-> "none", icon |-> "none"]

(***************************************************************************)
(* Direct calls of the Project interface on a tree built beforehand.        *)
(***************************************************************************)
NoCall == [called |-> FALSE]

\* main has not run.  gui, cli, version, projectFlag: the flags given; args: a
\* positional argument was given; cwdOK: os.Getwd succeeds; env: the
\* environment variables that are set; guiBuild: built with the gui tag
NoBoot ==
    [phase |-> "none", gui |-> FALSE, cli |-> FALSE, version |-> FALSE,
     projectFlag |-> FALSE, args |-> FALSE, cwdOK |-> TRUE, env |-> {},
     guiBuild |-> FALSE, path |-> "none", useGUI |-> FALSE, warned |-> FALSE,
     mode |-> "none"]

\* nothing has been opened since the last listing
NoOpen == [ref |-> <<>>, path |-> <<>>]

\* no listing has been stored.  out: what the last storing ls wrote; dirty: the
\* disk has changed since; again: that ls came after another with no change of
\* the disk between them
NoLs == [out |-> <<>>, dirty |-> FALSE, again |-> FALSE]

\* the input of an interactive session: lines keep coming until the user
\* ends it
Terminal == [script |-> FALSE, left |-> 0]

\* no editor has been constructed
NoEditor == [made |-> FALSE]

\* no file explorer has been constructed
NoExplorer == [made |-> FALSE]

\* a constructor that lists the project eagerly
InitSessionPreloaded ==
    /\ pc = "start"
    /\ cmd = <<>>
    /\ files = Files(ScenarioFS).files
    /\ currentFile = <<>>
    /\ written = <<>>
    /\ listed = FALSE
    /\ lastListing = <<>>
    /\ ctxCanceled = FALSE
    /\ proc = NoProc
    /\ runErr = NilErr
    /\ envSteps = 0
    /\ bcall = NoBuilderCall
    /\ lastOpen = NoOpen
    /\ lastLs = NoLs
    /\ boot = NoBoot
    /\ lang = NoLang
    /\ sinceCancel = 0
    /\ input = Terminal
    /\ editor = NoEditor
    /\ explorer = NoExplorer

InitSession ==
    /\ pc = "start"
    /\ cmd = <<>>
    /\ files = <<>>
    /\ currentFile = <<>>
    /\ written = <<>>
    /\ listed = FALSE
    /\ lastListing = <<>>
    /\ ctxCanceled = FALSE
    /\ proc = NoProc
    /\ runErr = NilErr
    /\ envSteps = 0
    /\ bcall = NoBuilderCall
    /\ lastOpen = NoOpen
    /\ lastLs = NoLs
    /\ boot = NoBoot
    /\ lang = NoLang
    /\ sinceCancel = 0
    /\ input = Terminal
    /\ editor = NoEditor
    /\ explorer = NoExplorer

InitProject ==
    /\ fs \in {EmptyFS, MissingFS, ScenarioFS}
    /\ filesRet = NoCall
    /\ treeRet = NoCall
    /\ isGoRet = NoCall
    /\ walkRet = NoCall
    /\ InitSession

CallFiles ==
    /\ filesRet' = [called |-> TRUE, files |-> Files(fs).files, err |-> Files(fs).err]
    /\ UNCHANGED <<fs, treeRet, isGoRet, walkRet, sessionVars>>

CallFileTree ==
    /\ treeRet' = [called |-> TRUE, tree |-> FileTree(fs).tree, err |-> FileTree(fs).err]
    /\ UNCHANGED <<fs, filesRet, isGoRet, walkRet, sessionVars>>

CallIsGoProject ==
    /\ isGoRet' = [called |-> TRUE, ok |-> IsGoProject(fs)]
    /\ UNCHANGED <<fs, filesRet, treeRet, walkRet, sessionVars>>

NothingCalled ==
    filesRet = NoCall /\ treeRet = NoCall /\ isGoRet = NoCall /\ walkRet = NoCall

\* the tree is built entry by entry before the first query
Populate ==
    /\ NothingCalled
    /\ Cardinality(EntriesOf(fs)) < MaxEntries
    /\ \E dir \in fs.dirs, name \in ProjNames, isDir \in BOOLEAN :
         /\ ~FSExists(fs, Join(dir, name))
         /\ fs' = AddEntry(fs, dir, name, isDir)
    /\ UNCHANGED <<projectVars, sessionVars>>

\* one directory is made unlistable (chmod 000) before the first query
Protect ==
    /\ NothingCalled
    /\ fs.unreadable = {}
    /\ \E dir \in fs.dirs : fs' = [fs EXCEPT !.unreadable = {dir}]
    /\ UNCHANGED <<projectVars, sessionVars>>

NextProject == Populate \/ Protect \/ CallFiles \/ CallFileTree \/ CallIsGoProject

SpecProject == InitProject /\ [][NextProject]_vars

(***************************************************************************)
(* Direct calls of FileSystem.WalkDir with a callback of the caller's.      *)
(***************************************************************************)
\* what a callback may return for an entry: an error of its own, or one of
\* the two values filepath.WalkDir reads as instructions
CallbackErrs == {"errCallback", "SkipDir", "SkipAll"}

\* one call WalkDir(root, fn) where fn returns cbErr for the entry at `at` and
\* nil for every other; visited: the paths fn was called for, in order
CallWalkDir ==
    /\ walkRet = NoCall
    /\ \E at \in fs.dirs \cup fs.files, cbErr \in CallbackErrs :
         LET w == WalkDir(fs, RootPath, StubCallback(at, cbErr))
         IN  walkRet' = [called |-> TRUE, at |-> at, cbErr |-> cbErr,
                         visited |-> [i \in 1..Len(w.out) |-> w.out[i].Path],
                         err |-> w.err]
    /\ UNCHANGED <<fs, filesRet, treeRet, isGoRet, sessionVars>>

NextWalk == Populate \/ Protect \/ CallWalkDir

SpecWalk == InitProject /\ [][NextWalk]_vars

(***************************************************************************)
(* Calls of the language table on file names put together piece by piece.   *)
(***************************************************************************)
\* what a name is put together from: the dot, the separator, a word outside
\* the table, the extensions of the table without their dot, and some of
\* them in capitals
NamePieces ==
    { <<".">>, <<"/">>, <<"t", "x", "t">>, <<"G", "O">>, <<"M", "d">>,
      <<"Y", "M", "L">>, <<"H", "T", "M", "L">> }
    \cup {Tail(row.ext) : row \in LanguageTable}

\* the tags GetIconForLanguage is handed when no name was classified: those
\* GetLanguageForFile can return, and some it cannot
IconInputs == {row.tag : row \in LanguageTable} \cup {"text", "rust", "GO", ""}

InitLang ==
    /\ fs = EmptyFS
    /\ filesRet = NoCall
    /\ treeRet = NoCall
    /\ isGoRet = NoCall
    /\ walkRet = NoCall
    /\ InitSession

TypePiece ==
    /\ ~lang.asked /\ lang.language = "none"
    /\ lang.typed < MaxPieces
    /\ \E piece \in NamePieces :
         lang' = [lang EXCEPT !.name = @ \o piece, !.typed = @ + 1]
    /\ UNCHANGED <<fs, projectVars, cliVars, boot>>

CallGetLanguageForFile ==
    /\ ~lang.asked /\ lang.language = "none"
    /\ lang' = [lang EXCEPT !.asked = TRUE, !.tag = GetLanguageForFile(lang.name)]
    /\ UNCHANGED <<fs, projectVars, cliVars, boot>>

\* the icon of the tag just found (as the listing and the tree renderer ask
\* for it), or of a tag from elsewhere
CallGetIconForLanguage ==
    /\ lang.language = "none"
    /\ \E language \in (IF lang.asked THEN {lang.tag}
                        ELSE IF lang.typed = 0 THEN IconInputs ELSE {}) :
         lang' = [lang EXCEPT !.language = language,
                              !.icon = GetIconForLanguage(language)]
    /\ UNCHANGED <<fs, projectVars, cliVars, boot>>

NextLang == TypePiece \/ CallGetLanguageForFile \/ CallGetIconForLanguage

SpecLang == InitLang /\ [][NextLang]_vars

(***************************************************************************)
(* Process start-up (main).                                                 *)
(***************************************************************************)
\* the environment variables shouldUseGUI reads, as set to what it looks for
DisplayEnv == {"DISPLAY", "WAYLAND_DISPLAY", "OS=Windows_NT"}

shouldUseGUI(env) ==
    "DISPLAY" \in env \/ "WAYLAND_DISPLAY" \in env \/ "OS=Windows_NT" \in env

\* main_gui.go (build tag gui) or main_nogui.go (no such tag)
hasGUISupport(guiBuild) == guiBuild

\* the process starts and main parses its flags
ParseFlags ==
    /\ boot.phase = "none"
    /\ \E gui \in BOOLEAN, cli \in BOOLEAN, version \in BOOLEAN,
          projectFlag \in BOOLEAN, args \in BOOLEAN, cwdOK \in BOOLEAN,
          env \in SUBSET DisplayEnv, guiBuild \in BOOLEAN :
         boot' = [NoBoot EXCEPT !.phase = "parsed", !.gui = gui, !.cli = cli,
                                !.version = version, !.projectFlag = projectFlag,
                                !.args = args, !.cwdOK = cwdOK, !.env = env,
                                !.guiBuild = guiBuild]
    /\ UNCHANGED <<fs, projectVars, cliVars, lang>>

\* --version: main prints the version and returns
VersionAndReturn ==
    /\ boot.phase = "parsed" /\ boot.version
    /\ boot' = [boot EXCEPT !.phase = "exited", !.mode = "version"]
    /\ UNCHANGED <<fs, projectVars, cliVars, lang>>

\* the project path: --project, else the first argument, else the working
\* directory (log.Fatal when that cannot be had)
DeterminePath ==
    /\ boot.phase = "parsed" /\ ~boot.version
    /\ boot' = IF boot.projectFlag THEN [boot EXCEPT !.phase = "path", !.path = "flag"]
               ELSE IF boot.args THEN [boot EXCEPT !.phase = "path", !.path = "arg"]
               ELSE IF boot.cwdOK THEN [boot EXCEPT !.phase = "path", !.path = "cwd"]
               ELSE [boot EXCEPT !.phase = "exited", !.mode = "fatal"]
    /\ UNCHANGED <<fs, projectVars, cliVars, lang>>

\* useGUI, and the fall back to CLI mode of a build without GUI support
DetermineMode ==
    /\ boot.phase = "path"
    /\ LET useGUI == boot.gui \/ (~boot.cli /\ shouldUseGUI(boot.env))
           fallBack == useGUI /\ ~hasGUISupport(boot.guiBuild)
       IN  boot' = [boot EXCEPT !.phase = "mode",
                                !.useGUI = useGUI /\ ~fallBack,
                                !.warned = fallBack]
    /\ UNCHANGED <<fs, projectVars, cliVars, lang>>

\* runGUI, which fails in a build without the gui tag
LaunchGUI ==
    /\ boot.phase = "mode" /\ boot.useGUI
    /\ boot' = IF boot.guiBuild THEN [boot EXCEPT !.phase = "running", !.mode = "gui"]
               ELSE [boot EXCEPT !.phase = "exited", !.mode = "fatal"]
    /\ UNCHANGED <<fs, projectVars, cliVars, lang>>

\* cli.New and cliApp.Run
LaunchCLI ==
    /\ boot.phase = "mode" /\ ~boot.useGUI
    /\ boot' = [boot EXCEPT !.phase = "running", !.mode = "cli"]
    /\ UNCHANGED <<fs, projectVars, cliVars, lang>>

NextMain ==
    \/ ParseFlags \/ VersionAndReturn \/ DeterminePath \/ DetermineMode
    \/ LaunchGUI \/ LaunchCLI

\* nothing has run when the process starts
InitMain == InitLang

SpecMain == InitMain /\ [][NextMain]_vars

(***************************************************************************)
(* The GUI's file explorer (gui.FileExplorerImpl).                          *)
(* Positions in fe.items count from 1; selectedIdx keeps Go's counting from *)
(* 0, with -1 for no selection.                                             *)
(***************************************************************************)
\* what the GUI components leave alone
nonGuiVars == <<pc, cmd, files, currentFile, written, listed, lastListing,
                ctxCanceled, proc, runErr, envSteps, bcall, lastOpen, lastLs,
                boot, lang, sinceCancel, input>>

\* a project with a directory the tree shows
GuiFS ==
    [dirs  |-> {RootPath, Join(RootPath, "app")},
     files |-> {Join(RootPath, "go.mod"), Join(RootPath, "main.go"),
                Join(Join(RootPath, "app"), "pkg.go")},
     unreadable |-> {}]

\* the same project with the directory unlistable
GuiFSProtected == [GuiFS EXCEPT !.unreadable = {Join(RootPath, "app")}]

\* the zero core.TreeNode, fe.tree before any tree was loaded
ZeroTree ==
    [File |-> [Name |-> "", Path |-> <<>>, RelPath |-> <<>>, IsDir |-> FALSE],
     Level |-> 0, IsLast |-> FALSE, Children |-> <<>>]

\* FileExplorerImpl.addTreeNode: the list with the node and all below it
\* appended, every item expanded
RECURSIVE addTreeNode(_, _, _, _), addChildren(_, _, _, _)
addTreeNode(items, node, level, isLast) ==
    LET own == IF level > 0
               THEN Append(items, [File |-> node.File, Level |-> level - 1,
                                   IsLast |-> isLast, Expanded |-> TRUE])
               ELSE items
    IN  IF node.File.IsDir THEN addChildren(own, node.Children, 1, level) ELSE own

\* the loop of addTreeNode over node.Children, from the i-th on
addChildren(items, children, i, level) ==
    IF i > Len(children) THEN items
    ELSE addChildren(addTreeNode(items, children[i], level + 1, i = Len(children)),
                     children, i + 1, level)

\* FileExplorerImpl.rebuildItems
rebuildItems(fe) ==
    IF fe.tree.File.Name # ""
    THEN [fe EXCEPT !.items = addTreeNode(<<>>, fe.tree, 0, TRUE)]
    ELSE [fe EXCEPT !.items = <<>>]

\* FileExplorerImpl.loadFileTree on a project over the disk fsys
loadFileTree(fe, fsys) ==
    IF ~fe.project THEN [fe EXCEPT !.items = <<>>]
    ELSE LET ft == FileTree(fsys)
         IN  IF ft.err # "nil" THEN [fe EXCEPT !.items = <<>>]
             ELSE rebuildItems([fe EXCEPT !.tree = ft.tree])

\* gui.NewFileExplorer.  project: the project handed over is not nil
NewFileExplorer(project, fsys) ==
    LET fe == [project |-> project, tree |-> ZeroTree, items |-> <<>>,
               selectedIdx |-> -1]
    IN  IF project THEN loadFileTree(fe, fsys) ELSE fe

\* FileExplorerImpl.SetProject
SetProject(fe, project, fsys) == loadFileTree([fe EXCEPT !.project = project], fsys)

\* FileExplorerImpl.Refresh
Refresh(fe, fsys) == loadFileTree(fe, fsys)

\* The loop of FileExplorerImpl.Update from position i on; n is the length
\* the range clause read before the first pass.  clicked: the positions whose
\* Button.Clicked reports a click in this frame.  A click on a directory
\* negates Expanded in the element and then rebuilds the list: the elements
\* of the new list carry new buttons, none of them clicked.  selected: the
\* files handed to onFileSelect.
RECURSIVE updateFrom(_, _, _, _, _, _)
updateFrom(fe, clicked, i, n, changed, selected) ==
    IF i > n THEN [fe |-> fe, changed |-> changed, selected |-> selected]
    ELSE IF i \in clicked
         THEN LET item == fe.items[i]
                  sel  == [fe EXCEPT !.selectedIdx = i - 1]
              IN  IF item.File.IsDir
                  THEN LET toggled == [sel EXCEPT !.items[i].Expanded = ~@]
                       IN  updateFrom(rebuildItems(toggled), {}, i + 1, n, TRUE, selected)
                  ELSE updateFrom(sel, clicked, i + 1, n, TRUE,
                                  Append(selected, item.File))
         ELSE updateFrom(fe, clicked, i + 1, n, changed, selected)

\* FileExplorerImpl.Update
Update(fe, clicked) == updateFrom(fe, clicked, 1, Len(fe.items), FALSE, <<>>)

\* no click on a directory has been processed since the list was last loaded
NoToggle == [pos |-> 0, before |-> FALSE]

\* the disks an explorer is opened on
ExplorerFSs == {GuiFS, GuiFSProtected, ScenarioFS, EmptyFS, MissingFS}

InitExplorer ==
    /\ fs \in ExplorerFSs
    /\ filesRet = NoCall
    /\ treeRet = NoCall
    /\ isGoRet = NoCall
    /\ walkRet = NoCall
    /\ InitSession

CallNewFileExplorer ==
    /\ ~explorer.made
    /\ \E project \in BOOLEAN :
         explorer' = [made |-> TRUE, fe |-> NewFileExplorer(project, fs),
                      changed |-> FALSE, selected |-> <<>>, toggle |-> NoToggle]
    /\ UNCHANGED <<fs, projectVars, nonGuiVars, editor>>

CallSetProject ==
    /\ explorer.made
    /\ \E project \in BOOLEAN :
         explorer' = [explorer EXCEPT !.fe = SetProject(@, project, fs),
                                      !.changed = FALSE, !.selected = <<>>,
                                      !.toggle = NoToggle]
    /\ UNCHANGED <<fs, projectVars, nonGuiVars, editor>>

CallRefresh ==
    /\ explorer.made
    /\ explorer' = [explorer EXCEPT !.fe = Refresh(@, fs), !.changed = FALSE,
                                    !.selected = <<>>, !.toggle = NoToggle]
    /\ UNCHANGED <<fs, projectVars, nonGuiVars, editor>>

\* the directory positions among the clicked ones
ClickedDirs(fe, clicked) == {i \in clicked : fe.items[i].File.IsDir}

\* one frame: Update processes the clicks that have arrived.  toggle: the
\* position of the directory click it processed, if any, and the Expanded
\* flag there before the frame
CallUpdate ==
    /\ explorer.made
    /\ \E clicked \in SUBSET (1..Len(explorer.fe.items)) :
         LET u    == Update(explorer.fe, clicked)
             dirs == ClickedDirs(explorer.fe, clicked)
             pos  == CHOOSE i \in dirs : \A j \in dirs : i <= j
         IN  explorer' =
               [explorer EXCEPT
                  !.fe = u.fe, !.changed = u.changed, !.selected = u.selected,
                  !.toggle = IF dirs = {} THEN @
                             ELSE [pos |-> pos,
                                   before |-> explorer.fe.items[pos].Expanded]]
    /\ UNCHANGED <<fs, projectVars, nonGuiVars, editor>>

\* the project directory changes behind the explorer, to another of the
\* disks above
ChangeDisk ==
    /\ explorer.made
    /\ \E fsys \in ExplorerFSs \ {fs} : fs' = fsys
    /\ UNCHANGED <<projectVars, nonGuiVars, editor, explorer>>

NextExplorer ==
    CallNewFileExplorer \/ CallRefresh \/ CallSetProject \/ CallUpdate \/ ChangeDisk

SpecExplorer == InitExplorer /\ [][NextExplorer]_vars

(***************************************************************************)
(* The GUI's text editor (gui.TextEditorImpl).  The widget's text is kept   *)
(* as one string; the files are those of the project GuiFS, each with the   *)
(* text it holds on disk.                                                   *)
(***************************************************************************)
\* a nil *core.FileInfo
NilFile == [nil |-> TRUE]

\* what a file or the widget can hold
EditorTexts == {"", "package main", "// edited"}

\* the entries an explorer on GuiFS lists, the files OpenFile is handed
EditorEntries ==
    LET fe == NewFileExplorer(TRUE, GuiFS)
    IN  {fe.items[i].File : i \in 1..Len(fe.items)}

\* the paths os.ReadFile and os.WriteFile are given
EditorPaths == {f.Path : f \in {e \in EditorEntries : ~e.IsDir}}

\* what os.ReadFile and os.WriteFile can return
ReadErrs == {"nil", "ENOENT", "EACCES"}
WriteErrs == {"nil", "EACCES", "ENOSPC"}

\* gui.NewTextEditor
NewTextEditor == [currentFile |-> NilFile, text |-> "", dirty |-> FALSE]

\* TextEditorImpl.OpenFile.  content, readErr: what os.ReadFile(file.Path)
\* returns
OpenFile(te, file, content, readErr) ==
    IF file = NilFile \/ file.IsDir THEN [te |-> te, err |-> "nil"]
    ELSE IF readErr # "nil" THEN [te |-> te, err |-> readErr]
    ELSE [te |-> [te EXCEPT !.text = content, !.currentFile = file, !.dirty = FALSE],
          err |-> "nil"]

\* TextEditorImpl.markDirty (the onChange callback it calls is left to the
\* window)
markDirty(te) == IF ~te.dirty THEN [te EXCEPT !.dirty = TRUE] ELSE te

\* TextEditorImpl.SetContent
SetContent(te, content) == markDirty([te EXCEPT !.text = content])

\* a Save that clears the flag whether or not the file was written
SaveClearingAnyway(te, writeErr) ==
    IF te.currentFile = NilFile THEN [te |-> te, err |-> "nil", wrote |-> FALSE]
    ELSE [te |-> [te EXCEPT !.dirty = FALSE], err |-> writeErr, wrote |-> writeErr = "nil"]

\* TextEditorImpl.Save.  writeErr: what os.WriteFile returns; wrote: the
\* file now holds the text
Save(te, writeErr) ==
    IF te.currentFile = NilFile THEN [te |-> te, err |-> "nil", wrote |-> FALSE]
    ELSE [te |-> IF writeErr = "nil" THEN [te EXCEPT !.dirty = FALSE] ELSE te,
          err |-> writeErr, wrote |-> writeErr = "nil"]

\* TextEditorImpl.IsDirty
IsDirty(te) == te.dirty

InitEditor ==
    /\ fs = GuiFS
    /\ filesRet = NoCall
    /\ treeRet = NoCall
    /\ isGoRet = NoCall
    /\ walkRet = NoCall
    /\ InitSession

\* disk: the text each file holds; edited: SetContent has been called since
\* the last OpenFile that loaded a file and the last Save that wrote; last:
\* the call made last and the error it returned
CallNewTextEditor ==
    /\ ~editor.made
    /\ \E disk \in [EditorPaths -> EditorTexts \ {"// edited"}] :
         editor' = [made |-> TRUE, te |-> NewTextEditor, disk |-> disk,
                    edited |-> FALSE, last |-> [op |-> "NewTextEditor", err |-> "nil"]]
    /\ UNCHANGED <<fs, projectVars, nonGuiVars, explorer>>

CallOpenFile ==
    /\ editor.made
    /\ \E file \in EditorEntries \cup {NilFile}, readErr \in ReadErrs :
         LET reads   == file # NilFile /\ ~file.IsDir
             content == IF reads /\ readErr = "nil" THEN editor.disk[file.Path] ELSE ""
             r       == OpenFile(editor.te, file, content, readErr)
         IN  editor' = [editor EXCEPT
                          !.te = r.te,
                          !.edited = IF reads /\ readErr = "nil" THEN FALSE ELSE @,
                          !.last = [op |-> IF reads THEN "OpenFile" ELSE "OpenFile(nothing)",
                                    err |-> r.err]]
    /\ UNCHANGED <<fs, projectVars, nonGuiVars, explorer>>

CallSetContent ==
    /\ editor.made
    /\ \E content \in EditorTexts :
         editor' = [editor EXCEPT !.te = SetContent(@, content), !.edited = TRUE,
                                  !.last = [op |-> "SetContent", err |-> "nil"]]
    /\ UNCHANGED <<fs, projectVars, nonGuiVars, explorer>>

\* a failed os.WriteFile leaves the file as it was or, having opened it with
\* O_TRUNC, empty
CallSave ==
    /\ editor.made
    /\ \E writeErr \in WriteErrs, truncated \in BOOLEAN :
         LET r    == Save(editor.te, writeErr)
             none == editor.te.currentFile = NilFile
             path == editor.te.currentFile.Path
         IN  /\ (none \/ writeErr = "nil") => ~truncated
             /\ editor' = [editor EXCEPT
                             !.te = r.te,
                             !.disk = IF none THEN @
                                      ELSE IF writeErr = "nil"
                                      THEN [@ EXCEPT ![path] = editor.te.text]
                                      ELSE IF truncated THEN [@ EXCEPT ![path] = ""]
                                      ELSE @,
                             !.edited = IF ~none /\ writeErr = "nil" THEN FALSE ELSE @,
                             !.last = [op |-> IF none THEN "Save(nothing)" ELSE "Save",
                                       err |-> r.err]]
    /\ UNCHANGED <<fs, projectVars, nonGuiVars, explorer>>

NextEditor == CallNewTextEditor \/ CallOpenFile \/ CallSetContent \/ CallSave

SpecEditor == InitEditor /\ [][NextEditor]_vars

(***************************************************************************)
(* Properties of the Project queries (checked under SpecProject).           *)
(***************************************************************************)
SeqToSet(seq) == {seq[i] : i \in 1..Len(seq)}

\* the root-relative paths of the entries Files() returned
FilesRelPaths(ret) == {f.RelPath : f \in SeqToSet(ret.files)}

\* the root-relative paths of the non-directory nodes below a tree node
RECURSIVE TreeFilePaths(_)
TreeFilePaths(node) ==
    UNION { IF c.File.IsDir THEN TreeFilePaths(c) ELSE {Rel(RootPath, c.File.Path)} :
            c \in SeqToSet(node.Children) }

\* an entry lies inside a directory named vendor or node_modules
InsideDependencyDir(relPath) ==
    \E j \in 1..(Len(relPath) - 1) : relPath[j] \in {"vendor", "node_modules"}

BothSucceeded ==
    /\ filesRet.called /\ filesRet.err = "nil"
    /\ treeRet.called /\ treeRet.err = "nil"

\* C1: on every tree where Files() and FileTree() both succeed, the relative
\* paths Files() returns are exactly those of the tree's non-directory nodes.
C1_FilesMatchTree ==
    BothSucceeded => FilesRelPaths(filesRet) = TreeFilePaths(treeRet.tree)

\* C2: Files() returns no entry that lies inside a directory named vendor or
\* node_modules.
C2_DependencyDirsPruned ==
    filesRet.called => \A p \in FilesRelPaths(filesRet) : ~InsideDependencyDir(p)

\* C3: on the tree go.mod, main.go, .git/config, vendor/pkg.go, Files() returns
\* exactly main.go and IsGoProject() returns true.
C3_ScenarioListing ==
    /\ (fs = ScenarioFS /\ filesRet.called) =>
          /\ filesRet.err = "nil"
          /\ [i \in 1..Len(filesRet.files) |-> filesRet.files[i].RelPath] = << <<"main.go">> >>
    /\ (fs = ScenarioFS /\ isGoRet.called) => isGoRet.ok

\* every child is one level below its parent
RECURSIVE LevelsBelow(_)
LevelsBelow(node) ==
    \A c \in SeqToSet(node.Children) : c.Level = node.Level + 1 /\ LevelsBelow(c)

\* IsLast marks the last child of every node and no other
RECURSIVE LastMarkedBelow(_)
LastMarkedBelow(node) ==
    \A i \in 1..Len(node.Children) :
        /\ node.Children[i].IsLast = (i = Len(node.Children))
        /\ LastMarkedBelow(node.Children[i])

\* the visible entries of a listed directory, as paths, in listing order
VisiblePaths(fsys, dir) ==
    LET ls == ListFiles(fsys, dir)
        vis == SelectSeq(ls.files, Visible)
    IN  [i \in 1..Len(vis) |-> vis[i].Path]

\* the children of every directory node are the visible entries of that
\* directory on disk, in order (so "the last child" is the last visible entry)
RECURSIVE ChildrenAreVisibleEntries(_, _)
ChildrenAreVisibleEntries(fsys, node) ==
    /\ [i \in 1..Len(node.Children) |-> node.Children[i].File.Path]
          = VisiblePaths(fsys, node.File.Path)
    /\ \A c \in SeqToSet(node.Children) :
          c.File.IsDir => ChildrenAreVisibleEntries(fsys, c)

\* C4: in every tree FileTree() returns, the root is the project directory at
\* level 0 with relative path "." and every child is one level below its
\* parent (also in the partly built tree a failed call hands back); when the
\* call succeeds, the children of a directory are its visible entries and
\* exactly the last of them is IsLast.
C4_TreeShape ==
    treeRet.called =>
        /\ treeRet.tree.Level = 0
        /\ treeRet.tree.File.RelPath = <<".">>
        /\ treeRet.tree.File.Path = RootPath
        /\ treeRet.tree.File.IsDir
        /\ LevelsBelow(treeRet.tree)
        /\ treeRet.err = "nil" =>
              /\ LastMarkedBelow(treeRet.tree)
              /\ ChildrenAreVisibleEntries(fs, treeRet.tree)

\* a returned tree with a node two levels down, under a root whose listing
\* ends in a filtered entry and holds an empty visible directory
C4_Witness ==
    /\ treeRet.called /\ treeRet.err = "nil"
    /\ \E c \in SeqToSet(treeRet.tree.Children) :
          /\ c.File.IsDir
          /\ \E g \in SeqToSet(c.Children) : g.Level = 2 /\ g.IsLast
    /\ Join(RootPath, "vendor") \in fs.dirs \cup fs.files
    /\ treeRet.tree.Children # <<>>

(***************************************************************************)
(* CLI.Run: the session loop.                                               *)
(*   pc = "start"    the CLI is constructed, Run has not begun              *)
(*   pc = "select"   at the top of the loop, before the ctx.Done() test     *)
(*   pc = "scan"     prompt written, scanner.Scan() pending                 *)
(*   pc = "exec"     a non-empty line is being dispatched                   *)
(*   pc = "wait"     the handler is blocked in cmd.Run() on its subprocess  *)
(*   pc = "returned" Run has returned runErr                                *)
(*   pc = "exited"   os.Exit(0) has ended the process                       *)
(***************************************************************************)
\* the references the lines of the session use
Refs ==
    { Word("1"), Word("3"), Word("5"), Word("0"), Word("+1"), Word("-1"),
      Word("main.go"), Word("config"), <<"vendor", "pkg.go">>, Word("nosuch") }

\* the lines scanner.Scan() may deliver, trimmed and split into fields
\* (<<>> is an empty or whitespace-only line)
Lines ==
    { <<>>, <<Word("help")>>, <<Word("h")>>, <<Word("ls")>>, <<Word("list")>>,
      <<Word("tree")>>, <<Word("open")>>, <<Word("cat")>>,
      <<Word("run")>>, <<Word("test")>>, <<Word("build")>>, <<Word("version")>>,
      <<Word("exit")>>, <<Word("quit")>>, <<Word("q")>>, <<Word("LS")>> }
    \cup { <<Word(c), r>> : c \in {"open", "cat"}, r \in Refs }
    \cup { <<Word("o"), Word("1")>>, <<Word("view"), Word("main.go")>>,
           <<Word("nosuch"), Word("ls")>> }

\* the lines of a script that starts no subprocess
PlainLines == {l \in Lines : l = <<>> \/ l[1][1] \notin {"run", "test", "build"}}

\* the lines the input may deliver next, whether it has one to deliver, and
\* the input after it has
LinesOf(in) == IF in.script THEN PlainLines ELSE Lines
CanRead(in) == ~in.script \/ in.left > 0
Consumed(in) == IF in.script THEN [in EXCEPT !.left = @ - 1] ELSE in

\* an error of the reader other than the end of the input
ReadErr == [msg |-> "read error", args |-> <<>>]

\* what scanner.Err() is when scanner.Scan() is false: nil at the end of the
\* input, the reader's error before it
ScanErrs(in) ==
    IF ~in.script THEN {NilErr, ReadErr}
    ELSE IF in.left = 0 THEN {NilErr} ELSE {ReadErr}

\* core.Command of the line being dispatched
CmdName == cmd[1][1]
CmdArgs == Tail(cmd)

\* a switch that folds the case of the name first
DispatchingAnyCase(names) ==
    pc = "exec" /\ (CmdName \in names \/ (CmdName = "LS" /\ "ls" \in names))

\* the case of the switch in executeCommand that holds names is taken
Dispatching(names) == pc = "exec" /\ CmdName \in names

\* a Run that returns the handler's error to its caller
ReturnPropagating(out, err) ==
    /\ written' = out
    /\ pc' = IF err # NilErr THEN "returned" ELSE "select"
    /\ cmd' = <<>>

\* the handler has returned err to Run after writing out: Run prints the error
\* line, if any, and goes round the loop
Return(out, err) ==
    /\ written' = out \o (IF err # NilErr THEN <<ErrorLine(err)>> ELSE <<>>)
    /\ pc' = "select"
    /\ cmd' = <<>>

\* CLI.showWelcome, the first thing Run does
ShowWelcome ==
    /\ pc = "start"
    /\ written' = << [kind |-> "welcome", goProject |-> IsGoProject(fs)] >>
    /\ pc' = "select"
    /\ UNCHANGED <<fs, projectVars, cmd, files, currentFile, listed, lastListing,
                   ctxCanceled, proc, runErr, envSteps, bcall, lastOpen, lastLs, auxVars>>

\* a loop that reads without prompting
SelectWithoutPrompt ==
    /\ pc = "select"
    /\ IF ctxCanceled
       THEN pc' = "returned" /\ runErr' = ContextCanceledErr /\ written' = <<>>
       ELSE pc' = "scan" /\ runErr' = runErr /\ written' = <<>>
    /\ UNCHANGED <<fs, projectVars, cmd, files, currentFile, listed, lastListing,
                   ctxCanceled, proc, envSteps, bcall, lastOpen, lastLs, auxVars>>

\* a loop that never looks at the context
SelectIgnoringCtx ==
    /\ pc = "select"
    /\ pc' = "scan" /\ runErr' = runErr /\ written' = <<Prompt>>
    /\ UNCHANGED <<fs, projectVars, cmd, files, currentFile, listed, lastListing,
                   ctxCanceled, proc, envSteps, bcall, lastOpen, lastLs, auxVars>>

\* Run, top of the loop: return on a done context, else write the prompt
Select ==
    /\ pc = "select"
    /\ IF ctxCanceled
       THEN pc' = "returned" /\ runErr' = ContextCanceledErr /\ written' = <<>>
       ELSE pc' = "scan" /\ runErr' = runErr /\ written' = <<Prompt>>
    /\ UNCHANGED <<fs, projectVars, cmd, files, currentFile, listed, lastListing,
                   ctxCanceled, proc, envSteps, bcall, lastOpen, lastLs, auxVars>>

\* a reader that takes the next line while the handler of the last one is
\* still blocked on its subprocess
ScanLineWhileWaiting ==
    /\ pc \in {"scan", "wait"}
    /\ CanRead(input)
    /\ input' = Consumed(input)
    /\ \E line \in LinesOf(input) :
         IF line = <<>> THEN pc' = "select" /\ cmd' = <<>> /\ sinceCancel' = sinceCancel
         ELSE /\ pc' = "exec" /\ cmd' = line
              /\ sinceCancel' = IF ctxCanceled THEN sinceCancel + 1 ELSE sinceCancel
    /\ written' = <<>>
    /\ UNCHANGED <<fs, projectVars, files, currentFile, listed, lastListing,
                   ctxCanceled, proc, runErr, envSteps, bcall, lastOpen, lastLs, boot, lang,
                   editor, explorer>>

\* scanner.Scan() delivers a line; an empty one is skipped
ScanLine ==
    /\ pc = "scan"
    /\ CanRead(input)
    /\ input' = Consumed(input)
    /\ \E line \in LinesOf(input) :
         IF line = <<>> THEN pc' = "select" /\ cmd' = <<>> /\ sinceCancel' = sinceCancel
         ELSE /\ pc' = "exec" /\ cmd' = line
              /\ sinceCancel' = IF ctxCanceled THEN sinceCancel + 1 ELSE sinceCancel
    /\ written' = <<>>
    /\ UNCHANGED <<fs, projectVars, files, currentFile, listed, lastListing,
                   ctxCanceled, proc, runErr, envSteps, bcall, lastOpen, lastLs, boot, lang,
                   editor, explorer>>

\* a loop that goes on prompting at the end of the input
ScanEndRetrying ==
    /\ pc = "scan"
    /\ \E e \in ScanErrs(input) :
         IF e = NilErr THEN pc' = "select" /\ runErr' = runErr
         ELSE pc' = "returned" /\ runErr' = e
    /\ written' = <<>>
    /\ UNCHANGED <<fs, projectVars, cmd, files, currentFile, listed, lastListing,
                   ctxCanceled, proc, envSteps, bcall, lastOpen, lastLs, auxVars>>

\* scanner.Scan() is false: end of input (Err() is nil) or a read error
ScanEnd ==
    /\ pc = "scan"
    /\ \E e \in ScanErrs(input) : runErr' = e
    /\ pc' = "returned"
    /\ written' = <<>>
    /\ UNCHANGED <<fs, projectVars, cmd, files, currentFile, listed, lastListing,
                   ctxCanceled, proc, envSteps, bcall, lastOpen, lastLs, auxVars>>

ShowHelp ==
    /\ Dispatching({"help", "h"})
    /\ Return(<< [kind |-> "help"] >>, NilErr)
    /\ UNCHANGED <<fs, projectVars, files, currentFile, listed, lastListing,
                   ctxCanceled, proc, runErr, envSteps, bcall, lastOpen, lastLs, auxVars>>

ShowVersion ==
    /\ Dispatching({"version"})
    /\ Return(<< [kind |-> "version"] >>, NilErr)
    /\ UNCHANGED <<fs, projectVars, files, currentFile, listed, lastListing,
                   ctxCanceled, proc, runErr, envSteps, bcall, lastOpen, lastLs, auxVars>>

ListFilesCmd ==
    /\ Dispatching({"ls", "list"})
    /\ LET r == listFiles(files, fs)
       IN  /\ files' = r.files
           /\ listed' = (listed \/ r.stored)
           /\ lastListing' = IF r.stored THEN Files(fs).files ELSE lastListing
           /\ lastOpen' = IF r.stored THEN NoOpen ELSE lastOpen
           /\ lastLs' = IF r.stored
                        THEN [out |-> r.out, dirty |-> FALSE,
                              again |-> listed /\ ~lastLs.dirty]
                        ELSE lastLs
           /\ Return(r.out, r.err)
    /\ UNCHANGED <<fs, projectVars, currentFile, ctxCanceled, proc, runErr, envSteps,
                   bcall, auxVars>>

ShowTreeCmd ==
    /\ Dispatching({"tree"})
    /\ LET r == showTree(fs) IN Return(r.out, r.err)
    /\ UNCHANGED <<fs, projectVars, files, currentFile, listed, lastListing,
                   ctxCanceled, proc, runErr, envSteps, bcall, lastOpen, lastLs, auxVars>>

\* an open that drops the stored list
OpenFileCmdForgetting ==
    /\ Dispatching({"open", "o"})
    /\ IF Len(CmdArgs) < 1
       THEN /\ currentFile' = currentFile /\ lastOpen' = lastOpen /\ files' = files
            /\ Return(<<>>, UsageOpenErr)
       ELSE LET r == openFile(files, currentFile, CmdArgs[1])
            IN  /\ currentFile' = r.currentFile
                /\ files' = IF r.err = NilErr THEN <<>> ELSE files
                /\ lastOpen' = IF r.err = NilErr
                                THEN [ref |-> CmdArgs[1], path |-> r.currentFile]
                                ELSE lastOpen
                /\ Return(r.out, r.err)
    /\ UNCHANGED <<fs, projectVars, listed, lastListing,
                   ctxCanceled, proc, runErr, envSteps, bcall, lastLs, auxVars>>

OpenFileCmd ==
    /\ Dispatching({"open", "o"})
    /\ IF Len(CmdArgs) < 1
       THEN currentFile' = currentFile /\ lastOpen' = lastOpen /\ Return(<<>>, UsageOpenErr)
       ELSE LET r == openFile(files, currentFile, CmdArgs[1])
            IN  /\ currentFile' = r.currentFile
                /\ lastOpen' = IF r.err = NilErr
                                THEN [ref |-> CmdArgs[1], path |-> r.currentFile]
                                ELSE lastOpen
                /\ Return(r.out, r.err)
    /\ UNCHANGED <<fs, projectVars, files, listed, lastListing,
                   ctxCanceled, proc, runErr, envSteps, bcall, lastLs, auxVars>>

ViewFileCmd ==
    /\ Dispatching({"cat", "view"})
    /\ IF Len(CmdArgs) < 1
       THEN Return(<<>>, UsageCatErr)
       ELSE LET r == viewFile(files, fs, CmdArgs[1]) IN Return(r.out, r.err)
    /\ UNCHANGED <<fs, projectVars, files, currentFile, listed, lastListing,
                   ctxCanceled, proc, runErr, envSteps, bcall, lastOpen, lastLs, auxVars>>

UnknownCmd ==
    /\ pc = "exec"
    /\ CmdName \notin {"help", "h", "ls", "list", "tree", "open", "o", "cat", "view",
                       "run", "test", "build", "version", "exit", "quit", "q"}
    /\ Return(<<>>, UnknownCommandErr(CmdName))
    /\ UNCHANGED <<fs, projectVars, files, currentFile, listed, lastListing,
                   ctxCanceled, proc, runErr, envSteps, bcall, lastOpen, lastLs, auxVars>>

\* an exit that returns nil to Run instead of ending the process
ExitCmdReturning ==
    /\ Dispatching({"exit", "quit", "q"})
    /\ Return(<< [kind |-> "goodbye"] >>, NilErr)
    /\ UNCHANGED <<fs, projectVars, files, currentFile, listed, lastListing,
                   ctxCanceled, proc, runErr, envSteps, bcall, lastOpen, lastLs, auxVars>>

\* exit, quit, q: os.Exit(0)
ExitCmd ==
    /\ Dispatching({"exit", "quit", "q"})
    /\ written' = << [kind |-> "goodbye"] >>
    /\ pc' = "exited"
    /\ cmd' = <<>>
    /\ UNCHANGED <<fs, projectVars, files, currentFile, listed, lastListing,
                   ctxCanceled, proc, runErr, envSteps, bcall, lastOpen, lastLs, auxVars>>

(***************************************************************************)
(* build, run, test: CLI.buildProject/runProject/runTests over GoBuilder.   *)
(***************************************************************************)
\* the handler up to the point where cmd.Run() blocks: the banner, then the
\* Builder operation, which returns at once when the project check or
\* cmd.Start() fails
BuilderStart ==
    /\ Dispatching({"build", "run", "test"})
    /\ \E lookPathOK \in BOOLEAN :
         LET banner == << [kind |-> "banner", op |-> CmdName] >>
             r == BuilderOp(CmdName, fs, ctxCanceled, lookPathOK, {})
         IN  /\ proc' = r.proc
             /\ IF r.proc = NoProc
                THEN Return(banner, r.err)
                ELSE pc' = "wait" /\ written' = banner /\ cmd' = cmd
    /\ UNCHANGED <<fs, projectVars, files, currentFile, listed, lastListing,
                   ctxCanceled, runErr, envSteps, bcall, lastOpen, lastLs, auxVars>>

\* cmd.Run() returns to the handler once the subprocess has an exit status
BuilderWait ==
    /\ pc = "wait"
    /\ proc.status \in {"exit0", "exit1", "killed"}
    /\ Return(<<>>, WaitErr(proc.status, proc.interrupted))
    /\ proc' = NoProc
    /\ UNCHANGED <<fs, projectVars, files, currentFile, listed, lastListing,
                   ctxCanceled, runErr, envSteps, bcall, lastOpen, lastLs, auxVars>>

\* the subprocess exits on its own, with status 0 or 1
ProcExit ==
    /\ proc.status = "running"
    /\ \E status \in {"exit0", "exit1"} : proc' = [proc EXCEPT !.status = status]
    /\ UNCHANGED <<fs, projectVars, pc, cmd, files, currentFile, written, listed,
                   lastListing, ctxCanceled, runErr, envSteps, bcall, lastOpen, lastLs, auxVars>>

\* the goroutine os/exec starts for a Cmd with a context: when the context is
\* done it calls os.Process.Kill, which ends a subprocess that still runs and
\* succeeds as well on one that has exited but is not yet collected
WatchCtx ==
    /\ proc.op # "none"
    /\ ctxCanceled
    /\ ~proc.interrupted
    /\ proc' = [proc EXCEPT !.interrupted = TRUE,
                            !.status = IF @ = "running" THEN "killed" ELSE @]
    /\ UNCHANGED <<fs, projectVars, pc, cmd, files, currentFile, written, listed,
                   lastListing, ctxCanceled, runErr, envSteps, bcall, lastOpen, lastLs, auxVars>>

(***************************************************************************)
(* What happens around the session: the user's other programs change the    *)
(* project directory, and the caller of Run cancels the context.            *)
(***************************************************************************)
\* the listing on screen no longer shows the disk
Stale(ls, isListed) == IF isListed THEN [ls EXCEPT !.dirty = TRUE] ELSE ls

EnvPaths ==
    { Join(RootPath, "go.mod"), Join(RootPath, "main.go"), Join(RootPath, "3"),
      Join(RootPath, "0"), Join(Join(RootPath, ".git"), "main.go") }

EnvDirs == { Join(RootPath, "vendor") }

Running == pc \notin {"returned", "exited"}

EnvCreate ==
    /\ Running
    /\ envSteps < MaxEnvSteps
    /\ \E path \in EnvPaths :
         /\ ~FSExists(fs, path)
         /\ Front(path) \in fs.dirs
         /\ fs' = AddEntry(fs, Front(path), Last(path), FALSE)
    /\ envSteps' = envSteps + 1
    /\ lastLs' = Stale(lastLs, listed)
    /\ UNCHANGED <<projectVars, pc, cmd, files, currentFile, written, listed,
                   lastListing, ctxCanceled, proc, runErr, bcall, lastOpen, auxVars>>

EnvRemove ==
    /\ Running
    /\ envSteps < MaxEnvSteps
    /\ \E path \in EnvPaths :
         /\ FSExists(fs, path)
         /\ fs' = RemoveAll(fs, path)
    /\ envSteps' = envSteps + 1
    /\ lastLs' = Stale(lastLs, listed)
    /\ UNCHANGED <<projectVars, pc, cmd, files, currentFile, written, listed,
                   lastListing, ctxCanceled, proc, runErr, bcall, lastOpen, auxVars>>

\* chmod of a directory: its listing fails from now on, or works again
EnvChmod ==
    /\ Running
    /\ envSteps < MaxEnvSteps
    /\ \E dir \in EnvDirs \cap fs.dirs :
         fs' = [fs EXCEPT !.unreadable =
                    IF dir \in @ THEN @ \ {dir} ELSE @ \cup {dir}]
    /\ envSteps' = envSteps + 1
    /\ lastLs' = Stale(lastLs, listed)
    /\ UNCHANGED <<projectVars, pc, cmd, files, currentFile, written, listed,
                   lastListing, ctxCanceled, proc, runErr, bcall, lastOpen, auxVars>>

CancelCtx ==
    /\ Running
    /\ ~ctxCanceled
    /\ ctxCanceled' = TRUE
    /\ UNCHANGED <<fs, projectVars, pc, cmd, files, currentFile, written, listed,
                   lastListing, proc, runErr, envSteps, bcall, lastOpen, lastLs, auxVars>>

Init ==
    /\ fs = ScenarioFS
    /\ filesRet = NoCall
    /\ treeRet = NoCall
    /\ isGoRet = NoCall
    /\ walkRet = NoCall
    /\ InitSession

Next ==
    \/ ShowWelcome \/ Select \/ ScanLine \/ ScanEnd
    \/ ShowHelp \/ ShowVersion \/ ListFilesCmd \/ ShowTreeCmd
    \/ OpenFileCmd \/ ViewFileCmd \/ UnknownCmd \/ ExitCmd
    \/ BuilderStart \/ BuilderWait \/ ProcExit \/ WatchCtx
    \/ EnvCreate \/ EnvRemove \/ EnvChmod \/ CancelCtx

Spec == Init /\ [][Next]_vars

(***************************************************************************)
(* A session fed from a script: a finite input with no build, run or test   *)
(* line, on a disk nobody else touches.                                     *)
(***************************************************************************)
\* a project of two files
ScriptFS ==
    [dirs |-> {RootPath},
     files |-> {Join(RootPath, "go.mod"), Join(RootPath, "main.go")},
     unreadable |-> {}]

InitScript ==
    /\ fs = ScriptFS
    /\ filesRet = NoCall
    /\ treeRet = NoCall
    /\ isGoRet = NoCall
    /\ walkRet = NoCall
    /\ pc = "start"
    /\ cmd = <<>>
    /\ files = <<>>
    /\ currentFile = <<>>
    /\ written = <<>>
    /\ listed = FALSE
    /\ lastListing = <<>>
    /\ ctxCanceled = FALSE
    /\ proc = NoProc
    /\ runErr = NilErr
    /\ envSteps = 0
    /\ bcall = NoBuilderCall
    /\ lastOpen = NoOpen
    /\ lastLs = NoLs
    /\ boot = NoBoot
    /\ lang = NoLang
    /\ sinceCancel = 0
    /\ \E n \in 0..MaxInput : input = [script |-> TRUE, left |-> n]
    /\ editor = NoEditor
    /\ explorer = NoExplorer

NextScript ==
    \/ ShowWelcome \/ Select \/ ScanLine \/ ScanEnd
    \/ ShowHelp \/ ShowVersion \/ ListFilesCmd \/ ShowTreeCmd
    \/ OpenFileCmd \/ ViewFileCmd \/ UnknownCmd \/ ExitCmd
    \/ CancelCtx

\* the handler of ls/list has been entered and has not returned
ListingPending == pc = "exec" /\ CmdName \in {"ls", "list"}

\* The process keeps running: a step of Run that can be taken is taken.  For
\* the handler of ls/list, whose step can be taken whenever the handler has
\* been entered (ListFilesCmd has no other guard) and always leaves it, weak
\* fairness is written out: the handler is not pending for ever.
SpecScript ==
    /\ InitScript /\ [][NextScript]_vars
    /\ WF_vars(~ListingPending /\ NextScript)
    /\ []<>~ListingPending

(***************************************************************************)
(* Direct calls of the Builder interface, one at a time, by a caller that   *)
(* holds the context; the project directory changes and the context is      *)
(* canceled as around the session.                                          *)
(***************************************************************************)
\* a project directory with or without go.mod, holding any of the artifacts
BuilderTrees ==
    { [dirs  |-> {RootPath} \cup (IF dist THEN {Join(RootPath, "dist")} ELSE {}),
       files |-> (IF gomod THEN {Join(RootPath, "go.mod")} ELSE {})
                 \cup {Join(RootPath, "main.go")}
                 \cup (IF bin THEN {Join(RootPath, ProjectName)} ELSE {})
                 \cup (IF exe THEN {Join(RootPath, ExeName)} ELSE {})
                 \cup (IF dist THEN {Join(Join(RootPath, "dist"), "app")} ELSE {}),
       unreadable |-> {}] :
      gomod \in BOOLEAN, bin \in BOOLEAN, exe \in BOOLEAN, dist \in BOOLEAN }

\* the caller calls Build, Run, Test or Clean; lookPathOK: the toolchain is on
\* PATH; fails: the artifacts whose removal the system refuses
CallBuilder ==
    /\ bcall.phase # "running"
    /\ \E op \in BuilderOps, lookPathOK \in BOOLEAN, fails \in SUBSET SeqToSet(Artifacts) :
         /\ fails \subseteq (IF op = "clean" THEN {a \in SeqToSet(Artifacts) : FSExists(fs, a)}
                             ELSE {})
         /\ LET r == BuilderOp(op, fs, ctxCanceled, lookPathOK, fails)
            IN  /\ fs' = r.fs
                /\ proc' = r.proc
                /\ bcall' = [op |-> op,
                             phase |-> IF r.proc = NoProc THEN "returned" ELSE "running",
                             accepted |-> r.accepted, err |-> r.err,
                             removals |-> r.removals, spawns |-> r.spawns,
                             started |-> r.proc # NoProc,
                             canceled |-> ctxCanceled, lookPathOK |-> lookPathOK,
                             fails |-> fails,
                             prior |-> IF bcall.op = "none" THEN "none"
                                       ELSE IF bcall.accepted THEN "accepted"
                                       ELSE "rejected"]
    /\ UNCHANGED <<projectVars, pc, cmd, files, currentFile, written, listed,
                   lastListing, ctxCanceled, runErr, envSteps, lastOpen, lastLs, auxVars>>

\* cmd.Run() returns to the operation, and the operation to its caller, once
\* the subprocess has an exit status
BuilderReturn ==
    /\ bcall.phase = "running"
    /\ proc.status \in {"exit0", "exit1", "killed"}
    /\ bcall' = [bcall EXCEPT !.phase = "returned",
                              !.err = WaitErr(proc.status, proc.interrupted)]
    /\ proc' = NoProc
    /\ UNCHANGED <<fs, projectVars, pc, cmd, files, currentFile, written, listed,
                   lastListing, ctxCanceled, runErr, envSteps, lastOpen, lastLs, auxVars>>

InitBuilder ==
    /\ fs \in BuilderTrees
    /\ filesRet = NoCall
    /\ treeRet = NoCall
    /\ isGoRet = NoCall
    /\ walkRet = NoCall
    /\ InitSession

NextBuilder ==
    \/ CallBuilder \/ BuilderReturn \/ ProcExit \/ WatchCtx
    \/ EnvCreate \/ EnvRemove \/ CancelCtx

SpecBuilder == InitBuilder /\ [][NextBuilder]_vars

(***************************************************************************)
(* Properties of the command session (checked under Spec).                  *)
(***************************************************************************)
\* the step is the handler of an open/o or cat/view line with a reference
Resolving ==
    /\ pc = "exec" /\ pc' # "exec"
    /\ CmdName \in {"open", "o", "cat", "view"}
    /\ Len(CmdArgs) >= 1

Ref == CmdArgs[1]

\* the step shows that the reference resolved to path: open records it as the
\* current file; cat renders that file or reports that reading that path failed
ResolvedTo(path) ==
    IF CmdName \in {"open", "o"}
    THEN /\ currentFile' = path
         /\ written' = << [kind |-> "opened", name |-> Ref] >>
    ELSE /\ currentFile' = currentFile
         /\ Len(written') = 1
         /\ \/ written'[1].kind = "file" /\ written'[1].path = path
            \/ /\ written'[1].kind = "error"
               /\ written'[1].err.msg \in {"ENOENT", "EISDIR"}
               /\ written'[1].err.args = <<path>>

\* the step reports err and nothing else, and leaves the current file alone
FailedWith(err) ==
    /\ written' = << [kind |-> "error", err |-> err] >>
    /\ currentFile' = currentFile

\* C5: once a listing has stored N files, a reference that parses as an
\* integer k in 1..N resolves to the k-th entry of the most recent listing.
C5_IndexResolves ==
    [][ (Resolving /\ listed /\ Atoi(Ref).ok
           /\ Atoi(Ref).num \in 1..Len(lastListing))
        => ResolvedTo(lastListing[Atoi(Ref).num].Path) ]_vars

\* "open 3" has picked the third entry of a listing that also holds a file
\* named 3 at another place
C5_Witness ==
    /\ listed
    /\ written = << [kind |-> "opened", name |-> Word("3")] >>
    /\ Len(files) >= 3
    /\ currentFile = files[3].Path
    /\ \E i \in 1..Len(files) : i # 3 /\ files[i].Name = "3"

\* the message of err gives the index and, as another value, the upper end n
\* of the valid range
NamesIndexAndRange(err, index, n) ==
    \E i, j \in 1..Len(err.args) : i # j /\ err.args[i] = index /\ err.args[j] = n

\* the step resolves an integer reference above the length of the stored list
AboveRange == Resolving /\ Atoi(Ref).ok /\ Atoi(Ref).num > Len(files)

\* C6 as stated: an integer reference greater than the length N of the stored
\* list fails with an error whose message names the index and the valid range.
C6_BoundsErrorNamesRange ==
    [][ AboveRange
        => /\ Len(written') = 1 /\ written'[1].kind = "error"
           /\ NamesIndexAndRange(written'[1].err, Atoi(Ref).num, Len(files)) ]_vars

\* C6 as amended: an integer reference greater than the length N of the stored
\* list fails with the error "invalid file number <index>. Use 'ls' to see
\* available files", which names the index alone, and nothing is opened.
C6_BoundsError ==
    [][ AboveRange
        => FailedWith([msg |-> "invalid file number %d. Use 'ls' to see available files",
                       args |-> <<Atoi(Ref).num>>]) ]_vars

\* reference 5 against a stored list of 2 files has failed
C6_Witness ==
    /\ Len(files) = 2
    /\ written = << [kind |-> "error",
                     err |-> [msg |-> "invalid file number %d. Use 'ls' to see available files",
                              args |-> <<5>>]] >>

\* the i-th stored entry has the reference as its relative path or bare name
StoredMatch(i) == files[i].RelPath = Ref \/ <<files[i].Name>> = Ref

\* C7: a reference that is no integer resolves to the first stored entry whose
\* relative path or bare name equals it, and fails with "file not found" when
\* there is none.
C7_NameResolves ==
    [][ (Resolving /\ ~Atoi(Ref).ok)
        => IF \E i \in 1..Len(files) : StoredMatch(i)
           THEN LET first == CHOOSE i \in 1..Len(files) :
                                StoredMatch(i) /\ \A j \in 1..(i - 1) : ~StoredMatch(j)
                IN  ResolvedTo(files[first].Path)
           ELSE FailedWith([msg |-> "file not found: %s", args |-> <<Ref>>]) ]_vars

\* "cat main.go" has rendered .git/main.go, listed before the main.go of the root
C7_Witness ==
    /\ Len(written) = 1 /\ written[1].kind = "file"
    /\ written[1].path = Join(Join(RootPath, ".git"), "main.go")
    /\ \E i, j \in 1..Len(files) :
          /\ i < j
          /\ files[i].Path = written[1].path
          /\ files[j].Path = Join(RootPath, "main.go")

\* C8: until an ls/list has stored a list, every open and cat fails, whatever
\* the reference, and opens nothing.
C8_NothingResolvesBeforeLs ==
    [][ (pc = "exec" /\ pc' # "exec" /\ CmdName \in {"open", "o", "cat", "view"} /\ ~listed)
        => /\ Len(written') = 1 /\ written'[1].kind = "error"
           /\ currentFile' = currentFile ]_vars

\* a reference has failed to resolve in a session that has not listed yet
C8_Witness ==
    /\ ~listed
    /\ pc = "select"
    /\ Len(written) = 1 /\ written[1].kind = "error"
    /\ written[1].err.msg \in {"invalid file number %d. Use 'ls' to see available files",
                               "file not found: %s"}

\* C9: the stored list changes only in an ls/list step, and a successful one
\* makes it exactly what Project.Files() returns.
C9_StoredListFrame ==
    [][ /\ (files' # files => Dispatching({"ls", "list"}))
        /\ (Dispatching({"ls", "list"}) /\ pc' # "exec" /\ Files(fs).err = "nil")
              => files' = Files(fs).files ]_vars

\* a listing has replaced a list that held the file opened earlier
C9_Witness ==
    /\ Len(written) = 1 /\ written[1].kind = "listing"
    /\ files # <<>>
    /\ currentFile # <<>>
    /\ \A i \in 1..Len(files) : files[i].Path # currentFile

ErrorLines(out) == Cardinality({i \in 1..Len(out) : out[i].kind = "error"})

\* the step is the return of a handler to Run
HandlerReturns ==
    /\ pc \in {"exec", "wait"}
    /\ pc' \notin {"exec", "wait"}
    /\ ~Dispatching({"exit", "quit", "q"})

\* C10 as stated: after a handler has returned an error, the next thing Run
\* does is prompt for the next line.
C10_PromptFollowsError ==
    [][ (pc = "select" /\ ErrorLines(written) > 0 /\ pc' # pc)
        => (pc' = "scan" /\ written' = <<Prompt>>) ]_vars

\* C10 as amended: a handler's error is printed as one error line and Run goes
\* to the top of its loop, where it prompts for the next line unless the
\* context is done; Run returns only there on a done context, or when reading
\* the input ends.
C10_ErrorsDoNotEndSession ==
    [][ /\ HandlerReturns => (pc' = "select" /\ ErrorLines(written') <= 1)
        /\ (pc = "select" /\ pc' # pc)
              => IF ctxCanceled THEN pc' = "returned"
                 ELSE pc' = "scan" /\ written' = <<Prompt>>
        /\ (pc' = "returned" /\ pc # "returned")
              => (pc = "select" /\ ctxCanceled) \/ pc = "scan" ]_vars

\* a handler has returned an error and the session is at the top of its loop
C10_Witness ==
    /\ pc = "select"
    /\ ~ctxCanceled
    /\ Len(written) >= 1 /\ written[Len(written)].kind = "error"
    /\ written[Len(written)].err.msg = "exit status 1"

(***************************************************************************)
(* Properties of the Builder (checked under SpecBuilder).                   *)
(***************************************************************************)
\* the step is a call of a Builder operation, up to where it returns or blocks
CallStep == bcall.phase # "running" /\ bcall' # bcall

\* the step is the return of a call that had blocked on its subprocess
ReturnStep == bcall.phase = "running" /\ bcall'.phase = "returned"

\* go.mod is there, at the root
HasGoMod(fsys) == <<"proj", "go.mod">> \in fsys.files \cup fsys.dirs

\* C11: a Builder call whose context is canceled while its subprocess runs
\* ends the subprocess and returns the context's cancellation error, which is
\* not the error of a subprocess that exits non-zero on its own.
C11_CancelReturnsCtxErr ==
    [][ (ReturnStep /\ proc.interrupted /\ proc.status = "killed")
        => /\ bcall'.err = [msg |-> "context canceled", args |-> <<>>]
           /\ bcall'.err # [msg |-> "exit status 1", args |-> <<>>] ]_vars

\* the step is a Build on a recognized project with a context already done
CanceledBuild ==
    CallStep /\ bcall'.op = "build" /\ HasGoMod(fs) /\ ctxCanceled

\* C12 as stated: Build on a recognized project with an already-canceled
\* context returns the cancellation error, and no subprocess ever runs.
C12_CanceledBuildReturnsCtxErr ==
    [][ CanceledBuild
        => /\ bcall'.phase = "returned"
           /\ bcall'.err = [msg |-> "context canceled", args |-> <<>>]
           /\ ~bcall'.started /\ proc'.op = "none" ]_vars

\* C12 as amended: Build on a recognized project with an already-canceled
\* context returns at once without a subprocess ever running; its error is the
\* cancellation error when the toolchain is on PATH, and the spawn failure
\* when it is not.
C12_CanceledBuildNeverRuns ==
    [][ CanceledBuild
        => /\ bcall'.phase = "returned"
           /\ ~bcall'.started /\ proc'.op = "none"
           /\ bcall'.err = IF bcall'.lookPathOK
                           THEN [msg |-> "context canceled", args |-> <<>>]
                           ELSE [msg |-> "exec: go: executable file not found",
                                 args |-> <<>>] ]_vars

\* a Build with the toolchain at hand has returned the cancellation error
\* without a subprocess
C12_Witness ==
    /\ bcall.op = "build" /\ bcall.phase = "returned" /\ bcall.accepted
    /\ bcall.canceled /\ bcall.lookPathOK /\ ~bcall.started
    /\ bcall.err = [msg |-> "context canceled", args |-> <<>>]

\* C13: Build, Run, Test and Clean on a directory without go.mod return the
\* not-a-project error at once: nothing is spawned and nothing on disk changes
\* (Clean removes no artifact).
C13_NotAProjectRejected ==
    [][ (CallStep /\ ~HasGoMod(fs))
        => /\ bcall'.phase = "returned"
           /\ bcall'.err = [msg |-> "not a Go project", args |-> <<>>]
           /\ bcall'.spawns = <<>> /\ ~bcall'.started /\ proc'.op = "none"
           /\ bcall'.removals = <<>>
           /\ fs' = fs ]_vars

\* Clean has been rejected in a directory that holds an artifact
C13_Witness ==
    /\ bcall.op = "clean" /\ bcall.phase = "returned" /\ ~bcall.accepted
    /\ ~HasGoMod(fs)
    /\ <<"proj", "dist", "app">> \in fs.files

\* the toolchain command the contract fixes for each operation
FixedCommand ==
    ("build" :> <<"go", "build", ".">>) @@ ("run" :> <<"go", "run", ".">>)
    @@ ("test" :> <<"go", "test", "./...">>) @@ ("clean" :> <<"go", "clean">>)

\* C14: a Builder operation on a recognized project makes exactly one spawn
\* attempt per call, of the fixed command of the operation with the project
\* root as working directory, and makes no further attempt after a failure.
C14_OneSpawnPerCall ==
    [][ /\ (CallStep /\ HasGoMod(fs))
            => /\ Len(bcall'.spawns) = 1
               /\ bcall'.spawns[1].argv = FixedCommand[bcall'.op]
               /\ bcall'.spawns[1].dir = <<"proj">>
        /\ ~CallStep => bcall'.spawns = bcall.spawns
        /\ (proc.op = "none" /\ proc'.op # "none") => CallStep ]_vars

\* a test run has failed and returned after its one attempt
C14_Witness ==
    /\ bcall.op = "test" /\ bcall.phase = "returned" /\ bcall.started
    /\ bcall.err = [msg |-> "exit status 1", args |-> <<>>]
    /\ Len(bcall.spawns) = 1

\* C15: every Builder operation connects the subprocess's standard output and
\* standard error to the caller's, and Run alone connects standard input.
C15_StdioConnected ==
    bcall.accepted =>
        \A i \in 1..Len(bcall.spawns) :
            /\ bcall.spawns[i].stdout = "os.Stdout"
            /\ bcall.spawns[i].stderr = "os.Stderr"
            /\ (bcall.spawns[i].stdin = "os.Stdin") = (bcall.op = "run")

\* the call blocks while its subprocess runs, and a call that does not block
\* has started none
BlocksUntilExit ==
    /\ (bcall.phase = "running" /\ proc.status = "running") => bcall'.phase = "running"
    /\ (CallStep /\ HasGoMod(fs) /\ bcall'.phase = "returned") => ~bcall'.started
    /\ (CallStep /\ bcall'.phase = "running") => proc'.status = "running"

\* a failure to spawn and a non-zero exit come back as they are
FailuresPassThrough ==
    /\ (CallStep /\ HasGoMod(fs) /\ ~bcall'.lookPathOK)
          => bcall'.err = [msg |-> "exec: go: executable file not found", args |-> <<>>]
    /\ (ReturnStep /\ proc.status = "exit1")
          => bcall'.err = [msg |-> "exit status 1", args |-> <<>>]
    /\ (ReturnStep /\ proc.status = "killed")
          => bcall'.err = [msg |-> "signal: killed", args |-> <<>>]

\* C16 as stated: a Builder call on a recognized project does not return until
\* its subprocess has exited or failed to spawn; a non-zero exit or a spawn
\* failure is returned unchanged, and a zero exit yields no error.
C16_ZeroExitNoError ==
    [][ /\ BlocksUntilExit
        /\ FailuresPassThrough
        /\ (ReturnStep /\ proc.status = "exit0")
              => bcall'.err = [msg |-> "nil", args |-> <<>>] ]_vars

\* C16 as amended: the same, except that a zero exit yields no error only
\* when the context's watcher has not interrupted the subprocess before its
\* exit was collected; when it has, the call returns the cancellation error.
C16_BlocksAndPassesThrough ==
    [][ /\ BlocksUntilExit
        /\ FailuresPassThrough
        /\ (ReturnStep /\ proc.status = "exit0")
              => bcall'.err = IF proc.interrupted
                              THEN [msg |-> "context canceled", args |-> <<>>]
                              ELSE [msg |-> "nil", args |-> <<>>] ]_vars

\* a call whose subprocess ran has returned the cancellation error, which only
\* a zero exit leaves to the watcher
C16_Witness ==
    /\ bcall.phase = "returned" /\ bcall.started
    /\ bcall.err = [msg |-> "context canceled", args |-> <<>>]

\* the artifact paths of the contract: <root>/<name>, <root>/<name>.exe, <root>/dist
ArtifactPaths == << <<"proj", "proj">>, <<"proj", "proj.exe">>, <<"proj", "dist">> >>

\* nothing is left on disk at or below path
Gone(fsys, path) ==
    \A q \in fsys.dirs \cup fsys.files : ~(Len(path) <= Len(q) /\ SubSeq(q, 1, Len(path)) = path)

\* C17: Clean on a recognized project tries the three artifacts in order, and
\* removes each one that is there unless the removal fails; a failed removal
\* aborts nothing: the artifacts after it are still tried, go clean is still
\* spawned, and what Clean returns is the error of go clean alone.
C17_CleanBestEffort ==
    [][ (CallStep /\ bcall'.op = "clean" /\ HasGoMod(fs))
        => /\ [i \in 1..Len(bcall'.removals) |-> bcall'.removals[i].path] = ArtifactPaths
           /\ \A i \in 1..Len(ArtifactPaths) :
                LET a == ArtifactPaths[i]
                    there == a \in fs.dirs \cup fs.files
                IN  /\ bcall'.removals[i].present = there
                    /\ bcall'.removals[i].failed = (there /\ a \in bcall'.fails)
                    /\ (there /\ a \notin bcall'.fails) => Gone(fs', a)
                    /\ (there /\ a \in bcall'.fails) => a \in fs'.dirs \cup fs'.files
           /\ Len(bcall'.spawns) = 1 /\ bcall'.spawns[1].argv = <<"go", "clean">>
           /\ bcall'.err = (IF ~bcall'.lookPathOK
                            THEN [msg |-> "exec: go: executable file not found", args |-> <<>>]
                            ELSE IF ctxCanceled
                            THEN [msg |-> "context canceled", args |-> <<>>]
                            ELSE [msg |-> "nil", args |-> <<>>])
           /\ bcall'.started = (bcall'.lookPathOK /\ ~ctxCanceled) ]_vars

\* the removal of the binary failed, dist was removed after it, and go clean runs
C17_Witness ==
    /\ bcall.op = "clean" /\ bcall.accepted /\ bcall.started
    /\ bcall.removals[1].failed
    /\ bcall.removals[3].present /\ ~bcall.removals[3].failed
    /\ <<"proj", "proj">> \in fs.files
    /\ <<"proj", "dist">> \notin fs.dirs
    /\ proc.cmd.argv = <<"go", "clean">>

\* C18: every Builder call tests for go.mod on the disk as it is at that
\* moment: whatever descriptor creations and deletions came before, the call
\* is accepted exactly when go.mod is there.
C18_CheckedEveryCall ==
    [][ CallStep => (bcall'.accepted = HasGoMod(fs)) ]_vars

\* a call has been rejected after an earlier one was accepted: go.mod was
\* deleted in between
C18_Witness ==
    /\ bcall.prior = "accepted" /\ ~bcall.accepted /\ bcall.phase = "returned"
    /\ bcall.op = "build"

(***************************************************************************)
(* Further properties of the command session (checked under Spec).          *)
(***************************************************************************)
\* C19: exit, quit and q end the session at once: the handler's step ends the
\* process, after which no prompt is written and no line is read or run.
C19_ExitEndsSession ==
    [][ /\ (Dispatching({"exit", "quit", "q"}) /\ pc' # pc)
            => /\ pc' = "exited"
               /\ written' = << [kind |-> "goodbye"] >>
        /\ pc = "exited"
            => /\ pc' = "exited"
               /\ written' = written /\ cmd' = cmd
               /\ files' = files /\ currentFile' = currentFile /\ fs' = fs ]_vars

\* the session has ended on an exit command after a listing
C19_Witness ==
    /\ pc = "exited"
    /\ written = << [kind |-> "goodbye"] >>
    /\ listed

\* the step is the handler of an open/o line
Opening == pc = "exec" /\ pc' # "exec" /\ CmdName \in {"open", "o"}

\* C20: an open that resolves its reference sets the current file to the
\* resolved path, reads nothing (it succeeds whether or not the file can be
\* read) and leaves the stored list alone; an open that does not resolve it
\* leaves the current file as it was.
C20_OpenSetsPointer ==
    [][ Opening
        => /\ files' = files
           /\ fs' = fs
           /\ IF Len(CmdArgs) < 1 THEN currentFile' = currentFile
              ELSE LET r == resolveFile(files, CmdArgs[1])
                   IN  IF r.err = [msg |-> "nil", args |-> <<>>]
                       THEN /\ currentFile' = r.path
                            /\ written' = << [kind |-> "opened", name |-> CmdArgs[1]] >>
                       ELSE /\ currentFile' = currentFile
                            /\ Len(written') = 1 /\ written'[1].kind = "error" ]_vars

\* an open has succeeded on a stored entry whose file is no longer on disk
C20_Witness ==
    /\ Len(written) = 1 /\ written[1].kind = "opened"
    /\ currentFile # <<>>
    /\ currentFile \notin fs.files \cup fs.dirs
    /\ \E i \in 1..Len(files) : files[i].Path = currentFile

\* C21: with no ls between them, open <ref> and a later cat <ref> of the same
\* reference resolve to the same path: open changes the current file alone,
\* not what a reference resolves to.
C21_OpenThenCatSamePath ==
    [][ (Resolving /\ CmdName \in {"cat", "view"}
           /\ lastOpen.path # <<>> /\ lastOpen.ref = Ref)
        => ResolvedTo(lastOpen.path) ]_vars

\* a cat has rendered the file an open by name had made current
C21_Witness ==
    /\ lastOpen.path # <<>>
    /\ ~Atoi(lastOpen.ref).ok
    /\ currentFile = lastOpen.path
    /\ Len(written) = 1 /\ written[1].kind = "file"
    /\ written[1].path = lastOpen.path

\* C22: an ls that follows another with no change of the disk between them
\* writes the same listing and stores the same list, so every index and name
\* resolves as before.
C22_LsIdempotent ==
    [][ (Dispatching({"ls", "list"}) /\ pc' # "exec" /\ listed /\ ~lastLs.dirty)
        => /\ written' = lastLs.out
           /\ files' = files
           /\ Len(written') = 1 /\ written'[1].kind = "listing" ]_vars

\* a second ls of an unchanged disk has written the listing of the first
C22_Witness ==
    /\ lastLs.again /\ ~lastLs.dirty
    /\ pc = "select"
    /\ written = lastLs.out
    /\ Len(files) >= 2

\* the command names of the dispatch table
CommandNames ==
    {"help", "h", "ls", "list", "tree", "open", "o", "cat", "view",
     "run", "test", "build", "version", "exit", "quit", "q"}

\* C23: a line whose first token is none of the command names, compared as
\* written (LS is not ls), fails with "unknown command" naming that token; no
\* Project or Builder operation runs and the session's state stays as it was.
C23_UnknownCommand ==
    [][ (pc = "exec" /\ pc' # "exec" /\ cmd[1][1] \notin CommandNames)
        => /\ pc' = "select"
           /\ written' = << [kind |-> "error",
                             err |-> [msg |-> "unknown command: %s (type 'help' for commands)",
                                      args |-> <<cmd[1][1]>>]] >>
           /\ files' = files /\ currentFile' = currentFile /\ listed' = listed
           /\ fs' = fs /\ proc' = proc /\ proc.op = "none" ]_vars

\* LS has been refused in a session that holds a stored list
C23_Witness ==
    /\ files # <<>>
    /\ written = << [kind |-> "error",
                     err |-> [msg |-> "unknown command: %s (type 'help' for commands)",
                              args |-> <<"LS">>]] >>

\* C24: the session runs one command at a time: a line is read only when no
\* handler is running (one blocked on a Builder subprocess included), a
\* handler in progress ends before anything else is read, and an empty line
\* runs no handler and leaves the session where it was.
C24_OneCommandAtATime ==
    [][ /\ (cmd' # cmd /\ cmd' # <<>>)
            => (pc = "scan" /\ cmd = <<>> /\ proc.op = "none" /\ pc' = "exec")
        /\ pc \in {"exec", "wait"}
            => /\ cmd # <<>>
               /\ pc' \in {"exec", "wait", "select", "exited"}
               /\ pc' \in {"exec", "wait"} => cmd' = cmd
        /\ proc.op # "none" => pc = "wait"
        /\ (pc = "scan" /\ pc' = "select")
            => /\ written' = <<>> /\ cmd' = <<>>
               /\ files' = files /\ currentFile' = currentFile
               /\ fs' = fs /\ proc' = proc ]_vars

\* the handler of run is blocked on a subprocess that has exited
C24_Witness ==
    /\ pc = "wait"
    /\ cmd = << <<"run">> >>
    /\ proc.op = "run" /\ proc.status = "exit0"
    /\ listed

\* C25: the prompt "gox> " is written once before every attempt to read a
\* line, and no line is read without it: the prompt is written in the step
\* that goes to the read and in no other, and is what was written last when
\* the read is made.
C25_PromptBeforeRead ==
    [][ /\ (pc # "scan" /\ pc' = "scan")
            => (pc = "select" /\ written' = << [kind |-> "gox> "] >>)
        /\ pc = "scan"
            => /\ written = << [kind |-> "gox> "] >>
               /\ pc' \in {"scan", "select", "exec", "returned"}
        /\ (cmd' # cmd /\ cmd' # <<>>) => pc = "scan"
        /\ (written' # written /\ \E i \in 1..Len(written') : written'[i] = [kind |-> "gox> "])
            => (pc = "select" /\ pc' = "scan") ]_vars

\* the session prompts again after an open
C25_Witness ==
    /\ pc = "scan"
    /\ written = << [kind |-> "gox> "] >>
    /\ currentFile # <<>>

(***************************************************************************)
(* Further properties of the Project queries and of FileSystem.WalkDir      *)
(* (checked under SpecProject).                                             *)
(***************************************************************************)
\* a name the filters leave out: hidden, vendor, node_modules
ExcludedName(name) == name \in {".git", "vendor", "node_modules"}

\* dir is the root, or a directory below it with no excluded name on the way
NotExcludedDir(fsys, dir) ==
    \/ dir = <<"proj">>
    \/ /\ dir \in fsys.dirs
       /\ Len(dir) > 1 /\ dir[1] = "proj"
       /\ \A j \in 2..Len(dir) : ~ExcludedName(dir[j])

\* the listing of dir fails: it is not there, or may not be read
ListingFails(fsys, dir) == dir \notin fsys.dirs \/ dir \in fsys.unreadable

\* C26: FileTree() returns an error exactly when the listing of the root or of
\* a directory below it that no filter excludes fails; hidden, vendor and
\* node_modules directories are not listed, so one that cannot be read does
\* not fail the call.
C26_TreeFailsOutright ==
    treeRet.called =>
        (treeRet.err # "nil") =
            (\E dir \in fs.dirs \cup {<<"proj">>} :
                NotExcludedDir(fs, dir) /\ ListingFails(fs, dir))

\* a tree has been built next to a vendor directory that cannot be read
C26_Witness ==
    /\ treeRet.called /\ treeRet.err = "nil"
    /\ <<"proj", "vendor">> \in fs.unreadable
    /\ treeRet.tree.Children # <<>>

\* C27: Files() returns an error only when the walk fails where it has to
\* look, that is when the listing of a directory outside every excluded
\* directory fails; a failure confined to an excluded directory does not
\* make Files() fail.
C27_ExcludedFailureHarmless ==
    (filesRet.called /\ filesRet.err # "nil") =>
        \E dir \in fs.dirs \cup {<<"proj">>} :
            NotExcludedDir(fs, dir) /\ ListingFails(fs, dir)

(***************************************************************************)
(* Properties of FileSystem.WalkDir (checked under SpecWalk).               *)
(***************************************************************************)
\* the callback was called for the entry it returns its error for
ErrorReturned ==
    walkRet.called /\ \E i \in 1..Len(walkRet.visited) : walkRet.visited[i] = walkRet.at

\* the callback was called for no entry after that one
NoFurtherEntry == Last(walkRet.visited) = walkRet.at

\* what a SkipDir returned for the entry prunes: the entry when it is a
\* directory, else the directory the entry is in
Pruned ==
    IF walkRet.at \in fs.dirs THEN walkRet.at
    ELSE SubSeq(walkRet.at, 1, Len(walkRet.at) - 1)

\* after the entry, the callback was called for nothing inside what was pruned
NothingPrunedVisited ==
    \A i, j \in 1..Len(walkRet.visited) :
        (walkRet.visited[i] = walkRet.at /\ i < j) =>
            ~IsPrefix(Pruned, walkRet.visited[j])

\* C28 (as stated): when the callback returns an error for an entry, WalkDir
\* calls it for no further entry and returns that same error.
C28_StopsAndReturnsSameError ==
    ErrorReturned => (NoFurtherEntry /\ walkRet.err = walkRet.cbErr)

\* C28 (amended): that holds for every error but filepath.SkipDir and
\* filepath.SkipAll.  On SkipAll the walk stops and WalkDir returns nil; on
\* SkipDir the walk leaves out what was pruned, goes on, and the SkipDir is
\* never what WalkDir returns.
C28_StopsUnlessSkip ==
    ErrorReturned =>
        /\ ~IsSkip(walkRet.cbErr) => (NoFurtherEntry /\ walkRet.err = walkRet.cbErr)
        /\ walkRet.cbErr = "SkipAll" => (NoFurtherEntry /\ walkRet.err = "nil")
        /\ walkRet.cbErr = "SkipDir" => (NothingPrunedVisited /\ walkRet.err # "SkipDir")

\* the callback's own error came back from a walk that had entries left
C28_Witness ==
    /\ ErrorReturned /\ walkRet.cbErr = "errCallback"
    /\ walkRet.err = "errCallback"
    /\ fs.unreadable = {}
    /\ Len(walkRet.visited) >= 2
    /\ Len(walkRet.visited) < Cardinality(fs.dirs \cup fs.files)

(***************************************************************************)
(* Properties of the language table (checked under SpecLang).               *)
(***************************************************************************)
\* two characters are the same letter, whatever their case
SameLetter(a, b) == a = b \/ <<a, b>> \in Folds \/ <<b, a>> \in Folds

\* two strings are equal up to letter case
EqualFold(s, t) ==
    Len(s) = Len(t) /\ \A i \in 1..Len(s) : SameLetter(s[i], t[i])

\* names in lower case to compare with: one for every extension of the table,
\* and names with no extension, an empty one and one outside the table
ProbeNames ==
    {<<"t", "x", "t">> \o row.ext : row \in LanguageTable}
    \cup { <<"t", "x", "t">>, <<"t", "x", "t", ".">>, <<".", "t", "x", "t">> }

\* C29: GetLanguageForFile gives two names with the same final extension up
\* to letter case the same tag, and "text" to every name whose extension is
\* not in the table (no extension included); GetIconForLanguage gives the
\* generic glyph to every tag outside its table.
C29_LanguageByExtension ==
    /\ lang.asked =>
         /\ \A probe \in ProbeNames :
              EqualFold(Ext(probe), Ext(lang.name)) =>
                  GetLanguageForFile(probe) = lang.tag
         /\ (~\E row \in LanguageTable : EqualFold(row.ext, Ext(lang.name))) =>
              lang.tag = "text"
    /\ lang.language # "none" =>
         ((~\E row \in IconTable : row.language = lang.language) =>
              lang.icon = GenericIcon)

\* a name whose extension is in capitals got the tag of the extension, and
\* then its icon
C29_Witness ==
    /\ lang.asked /\ Ext(lang.name) = <<".", "G", "O">>
    /\ lang.tag = "go"
    /\ lang.language = "go" /\ lang.icon # GenericIcon

(***************************************************************************)
(* Properties of process start-up (checked under SpecMain).                 *)
(***************************************************************************)
\* C30: once main has launched a mode, it is the CLI session whenever --cli
\* was given or GUI support is not compiled in; and a --gui request without
\* compiled-in GUI support has fallen back to CLI mode.
C30_CLIWhenForcedOrNoGUI ==
    boot.phase = "running" =>
        /\ (boot.cli \/ ~boot.guiBuild) => boot.mode = "cli"
        /\ (boot.gui /\ ~boot.guiBuild) => (boot.mode = "cli" /\ boot.warned)

(***************************************************************************)
(* Further properties of the tree (checked under SpecProject).              *)
(***************************************************************************)
\* the place of a path in the listing of its directory
PlaceInListing(fsys, dir, path) ==
    LET entries == ReadDir(fsys, dir).entries
    IN  CHOOSE i \in 1..Len(entries) : entries[i] = path

\* below a node, every two children stand as the listing of the node's
\* directory has them
RECURSIVE ListingOrderKept(_, _)
ListingOrderKept(fsys, node) ==
    /\ \A i, j \in 1..Len(node.Children) :
          i < j =>
              /\ node.Children[i].File.Path \in SeqToSet(ReadDir(fsys, node.File.Path).entries)
              /\ node.Children[j].File.Path \in SeqToSet(ReadDir(fsys, node.File.Path).entries)
              /\ PlaceInListing(fsys, node.File.Path, node.Children[i].File.Path)
                    < PlaceInListing(fsys, node.File.Path, node.Children[j].File.Path)
    /\ \A c \in SeqToSet(node.Children) : ListingOrderKept(fsys, c)

\* C31: the children of every tree node appear in the relative order in which
\* the listing of that directory returned them.
C31_ChildrenInListingOrder ==
    treeRet.called => ListingOrderKept(fs, treeRet.tree)

\* a tree with two children under the root, out of a listing the filter took
\* an entry from
C31_Witness ==
    /\ treeRet.called /\ treeRet.err = "nil"
    /\ Len(treeRet.tree.Children) >= 2
    /\ Len(ReadDir(fs, RootPath).entries) > Len(treeRet.tree.Children)

(***************************************************************************)
(* Further properties of the command session (checked under Spec).          *)
(***************************************************************************)
\* C32: a reference that parses as an integer is taken as an index and never
\* as a name: inside 1..N it resolves to the entry at that index, and outside
\* (0, a negative number, a number above N) the step fails with the bounds
\* error, whatever the names and relative paths of the stored entries.
C32_IntegerIsAlwaysIndex ==
    [][ (Resolving /\ Atoi(Ref).ok)
        => IF Atoi(Ref).num \in 1..Len(files)
           THEN ResolvedTo(files[Atoi(Ref).num].Path)
           ELSE FailedWith(InvalidNumberErr(Atoi(Ref).num)) ]_vars

\* reference 0 has failed with the bounds error against a stored list that
\* holds a file named 0
C32_Witness ==
    /\ written = << ErrorLine(InvalidNumberErr(0)) >>
    /\ \E i \in 1..Len(files) : files[i].Name = "0"

\* the step is the handler of an ls/list line on a disk where Files() fails
FailingLs ==
    /\ pc = "exec" /\ pc' # "exec"
    /\ CmdName \in {"ls", "list"}
    /\ Files(fs).err # "nil"

\* C33: when Project.Files() fails during ls/list, only the error is
\* reported, the stored list and the current file stay as they were, and
\* every reference resolves after the step as it did before.
C33_FailedLsKeepsList ==
    [][ FailingLs
        => /\ FailedWith(WalkErr(Files(fs).err))
           /\ files' = files
           /\ \A ref \in Refs : resolveFile(files', ref) = resolveFile(files, ref) ]_vars

\* an ls has failed on the unreadable vendor directory with a list stored
\* and a file open
C33_Witness ==
    /\ written = << ErrorLine(WalkErr("EACCES")) >>
    /\ Join(RootPath, "vendor") \in fs.unreadable
    /\ Len(files) >= 1
    /\ currentFile # <<>>
    /\ resolveFile(files, Word("1")).err = NilErr

(***************************************************************************)
(* Further properties of GoBuilder (checked under SpecBuilder).             *)
(***************************************************************************)
\* C34: a Builder operation called with an already-canceled context on a
\* directory that is no recognized project returns the not-a-project error,
\* not the cancellation error.
C34_ProjectCheckBeforeContext ==
    [][ (CallStep /\ ctxCanceled /\ ~HasGoMod(fs))
        => /\ bcall'.phase = "returned"
           /\ bcall'.err = NotGoProjectErr
           /\ bcall'.err # ContextCanceledErr ]_vars

\* Test has come back rejected from a call made with the context canceled
C34_Witness ==
    /\ bcall.op = "test" /\ bcall.phase = "returned"
    /\ bcall.canceled /\ ctxCanceled
    /\ bcall.err = NotGoProjectErr
    /\ ~HasGoMod(fs)

\* the step is a call of Clean on a recognized project with the context
\* already canceled
CanceledClean == CallStep /\ bcall'.op = "clean" /\ ctxCanceled /\ HasGoMod(fs)

\* an artifact path with something at it
ArtifactThere(fsys, i) == ArtifactPaths[i] \in fsys.dirs \cup fsys.files

\* C35 (as stated): Clean called on a recognized project with an
\* already-canceled context removes every existing artifact path and returns
\* the cancellation error of the go clean step.
C35_CanceledCleanRemovesAll ==
    [][ CanceledClean
        => /\ \A i \in 1..Len(ArtifactPaths) :
                ArtifactThere(fs, i) => Gone(fs', ArtifactPaths[i])
           /\ bcall'.err = ContextCanceledErr ]_vars

\* C35 (amended): such a Clean goes through all three artifact paths and
\* removes every existing one whose removal the system does not refuse, starts
\* no subprocess, and returns the error of the go clean step: the cancellation
\* error when the toolchain is on PATH, the spawn failure when it is not.
C35_CanceledCleanStillRemoves ==
    [][ CanceledClean
        => /\ Len(bcall'.removals) = Len(ArtifactPaths)
           /\ \A i \in 1..Len(ArtifactPaths) :
                (ArtifactThere(fs, i) /\ ArtifactPaths[i] \notin bcall'.fails)
                    => Gone(fs', ArtifactPaths[i])
           /\ bcall'.phase = "returned" /\ ~bcall'.started /\ proc'.op = "none"
           /\ bcall'.err = (IF bcall'.lookPathOK THEN ContextCanceledErr ELSE SpawnErr) ]_vars

\* a Clean called with the context canceled has removed dist and returned
\* the cancellation error
C35_Witness ==
    /\ bcall.op = "clean" /\ bcall.phase = "returned" /\ bcall.accepted
    /\ bcall.canceled /\ bcall.err = ContextCanceledErr
    /\ bcall.removals[3].present /\ ~bcall.removals[3].failed
    /\ <<"proj", "dist">> \notin fs.dirs

(***************************************************************************)
(* Properties of the end of the session (checked under Spec).               *)
(***************************************************************************)
\* a step of Run itself (each one moves Run on), not of the world around it
RunStep == pc' # pc

\* the session ends in this step: Run returns, or the process exits
SessionEnds == pc' \in {"returned", "exited"} /\ pc \notin {"returned", "exited"}

\* after the cancellation at most one line is dispatched, the one whose read
\* was pending by then, and no prompt is written
OneMoreAtMost ==
    /\ sinceCancel' <= 1
    /\ (ctxCanceled' /\ pc' = "scan") => pc = "scan"
    /\ (ctxCanceled /\ RunStep) => \A i \in 1..Len(written') : written'[i] # Prompt

\* C36 (as stated): once the context is canceled, Run dispatches at most one
\* further command, writes no prompt, and the session ends by Run returning
\* the context's error unless the input ended first.
C36_CancelEndsWithCtxErr ==
    [][ /\ OneMoreAtMost
        /\ (ctxCanceled /\ SessionEnds /\ pc # "scan")
              => (pc' = "returned" /\ runErr' = ContextCanceledErr) ]_vars

\* C36 (amended): the same, but the one further command may be exit, quit or
\* q, which ends the process instead: at the top of its loop Run does nothing
\* on a canceled context but return the context's error, and the session ends
\* only there, at the end of the input, or in the handler of exit.
C36_CancelEndsSession ==
    [][ /\ OneMoreAtMost
        /\ (ctxCanceled /\ RunStep /\ pc = "select")
              => (pc' = "returned" /\ runErr' = ContextCanceledErr)
        /\ (ctxCanceled /\ SessionEnds)
              => \/ pc = "select" /\ pc' = "returned" /\ runErr' = ContextCanceledErr
                 \/ pc = "scan" /\ pc' = "returned"
                 \/ pc = "exec" /\ pc' = "exited" /\ CmdName \in {"exit", "quit", "q"} ]_vars

\* Run has returned the context's error after the one line that was dispatched
\* since the cancellation
C36_Witness ==
    /\ pc = "returned" /\ runErr = ContextCanceledErr
    /\ ctxCanceled /\ sinceCancel = 1

(***************************************************************************)
(* Properties of a session fed from a script (checked under SpecScript).    *)
(***************************************************************************)
\* the read finds the input at its end
ReadAtEnd == pc = "scan" /\ RunStep /\ input.script /\ input.left = 0

\* Run has returned, or the process has exited
Terminated == pc \in {"returned", "exited"}

\* C37: when the input is exhausted Run returns without error right after
\* the prompt of the read that failed, with nothing dispatched; and a session
\* on a finite input with no build, run or test line always terminates.
C37_EndOfInputEndsRun ==
    /\ [][ ReadAtEnd
           => /\ written = <<Prompt>>
              /\ pc' = "returned" /\ runErr' = NilErr
              /\ cmd' = <<>> /\ written' = <<>>
              /\ files' = files /\ currentFile' = currentFile ]_vars
    /\ <>Terminated

\* Run has returned nil at the end of a script whose lines were dispatched
C37_Witness ==
    /\ pc = "returned" /\ runErr = NilErr
    /\ input.script /\ input.left = 0
    /\ ~ctxCanceled
    /\ listed /\ currentFile # <<>>

C39_ClickTogglesExpansion ==
    (explorer.made /\ explorer.toggle.pos > 0) =>
        explorer.fe.items[explorer.toggle.pos].Expanded = ~explorer.toggle.before

====
